---- MODULE Spec2Model ----
(***************************************************************************)
(* A model of the AI Samarth report generator (src/report_code.py and the  *)
(* pipeline of src/app.py): schema validation, per-row completion          *)
(* counting, progress tiers, start-date parsing, per-dataset aggregation   *)
(* with month buckets, cross-dataset normalisation, the batch gate and the *)
(* two pipeline entry points.                                              *)
(*                                                                         *)
(* Text (header cells, row cells, file names, dictionary keys) is a        *)
(* sequence of one-character strings, so that substring tests, regular     *)
(* expressions and formatting are computed, not assumed.                   *)
(***************************************************************************)
EXTENDS Integers, Sequences, FiniteSets, TLC

VARIABLES
    tv, tq, tpct, tpc,                 \* calculate_progress_percentage: inputs, result, position
    row_in,                            \* count_completions: the row counted
    date_in, date_out,                 \* parse_start_date: the text parsed, the result
    date_src,                          \* the date the text was written from, if any
    row_started,                       \* has_started of the row counted
    headers, edits, accepted, video_chapter_indices, vpc,   \* validate_all on one header row
    entry, files, file_idx, pc, all_stats, outputs, message, reported, calls, date_filter

tierVars == <<tv, tq, tpct, tpc, row_in, date_in, date_out, date_src, row_started>>
valVars  == <<headers, edits, accepted, video_chapter_indices, vpc>>
pipeVars == <<entry, files, file_idx, pc, all_stats, outputs, message, reported, calls, date_filter>>
vars == <<tierVars, valVars, pipeVars>>

----------------------------------------------------------------------------
(* Text helpers: Python's str.lower, str.strip, the `in` substring test.   *)

UpperLetters == <<"A","B","C","D","E","F","G","H","I","J","K","L","M",
                  "N","O","P","Q","R","S","T","U","V","W","X","Y","Z">>
LowerLetters == <<"a","b","c","d","e","f","g","h","i","j","k","l","m",
                  "n","o","p","q","r","s","t","u","v","w","x","y","z">>
Digits == <<"0","1","2","3","4","5","6","7","8","9">>

InSeq(c, s) == \E i \in 1..Len(s) : s[i] = c

\* a sequence given as a function on 1..n, as a list whose elements are
\* computed once
List(f) == <<>> \o f

\* a function as a table whose values are computed once
Table(f) == f @@ <<>>

UpperSet == {UpperLetters[i] : i \in 1..26}
LowerSet == {LowerLetters[i] : i \in 1..26}
DigitSet == {Digits[i] : i \in 1..10}
AlnumSet == UpperSet \cup LowerSet \cup DigitSet

IsDigit(c) == c \in DigitSet
IsAlnum(c) == c \in AlnumSet
IsWordChar(c) == IsAlnum(c) \/ c = "_"
IsSpace(c) == c \in {" ", "\t", "\n", "\r"}

LowerChar(c) ==
    IF c \in UpperSet
    THEN LowerLetters[CHOOSE i \in 1..26 : UpperLetters[i] = c]
    ELSE c

Lower(s) == List([i \in 1..Len(s) |-> LowerChar(s[i])])

\* sub occurs in s starting at position p
MatchAt(s, sub, p) ==
    /\ p >= 1
    /\ p + Len(sub) - 1 <= Len(s)
    /\ \A k \in 1..Len(sub) : s[p + k - 1] = sub[k]

Contains(s, sub) == \E p \in 1..(Len(s) - Len(sub) + 1) : MatchAt(s, sub, p)

RECURSIVE LStrip(_)
LStrip(s) == IF s # <<>> /\ IsSpace(Head(s)) THEN LStrip(Tail(s)) ELSE s

RECURSIVE RStrip(_)
RStrip(s) ==
    IF s # <<>> /\ IsSpace(s[Len(s)]) THEN RStrip(SubSeq(s, 1, Len(s) - 1)) ELSE s

Strip(s) == RStrip(LStrip(s))

----------------------------------------------------------------------------
(* Class constants of AISmarthProcessor (0-based column indices).          *)

COL_R == 17
COL_BR == 69
COL_AP == 41
COL_BU == 72
COL_START_DATE == 12
EXPECTED_VIDEO_CHAPTERS == 35
COMPLETION_25_VIDEOS == 9
COMPLETION_50_VIDEOS == 18
COMPLETION_75_VIDEOS == 26
COMPLETION_100_VIDEOS == 35
COMPLETION_100_QUIZZES == 2
ID_LENGTH == 24
REQUIRED_FILE_COUNT == 5

quiz_indices == <<COL_AP, COL_BU>>

\* Python lists are 0-based: row[idx] is the (idx+1)-th element.
At(row, idx) == row[idx + 1]

----------------------------------------------------------------------------
(* Progress tiers.                                                         *)

\* as if the quizzes played no part
calculate_progress_percentage_lax(videos_completed, quizzes_completed) ==
    IF videos_completed >= COMPLETION_100_VIDEOS
    THEN 100
    ELSE IF videos_completed >= COMPLETION_75_VIDEOS THEN 75
    ELSE IF videos_completed >= COMPLETION_50_VIDEOS THEN 50
    ELSE IF videos_completed >= COMPLETION_25_VIDEOS THEN 25
    ELSE 0

calculate_progress_percentage(videos_completed, quizzes_completed) ==
    IF /\ videos_completed >= COMPLETION_100_VIDEOS
       /\ quizzes_completed >= COMPLETION_100_QUIZZES
    THEN 100
    ELSE IF videos_completed >= COMPLETION_75_VIDEOS THEN 75
    ELSE IF videos_completed >= COMPLETION_50_VIDEOS THEN 50
    ELSE IF videos_completed >= COMPLETION_25_VIDEOS THEN 25
    ELSE 0

----------------------------------------------------------------------------
(* SpecTier: calculate_progress_percentage applied to every pair of counts *)
(* a validated dataset can produce.                                        *)

TierIdle ==
    /\ tpc = "idle" /\ tv = 0 /\ tq = 0 /\ tpct = 0
    /\ row_in = <<>> /\ date_in = <<>> /\ date_out = [kind |-> "none"]
    /\ date_src = [kind |-> "none"]
    /\ row_started = FALSE

TierInit ==
    /\ tv \in 0..EXPECTED_VIDEO_CHAPTERS
    /\ tq \in 0..Len(quiz_indices)
    /\ tpct = 0
    /\ tpc = "call"
    /\ row_in = <<>> /\ date_in = <<>> /\ date_out = [kind |-> "none"]
    /\ date_src = [kind |-> "none"]
    /\ row_started = FALSE

TierCalc ==
    /\ tpc = "call"
    /\ tpct' = calculate_progress_percentage(tv, tq)
    /\ tpc' = "done"
    /\ UNCHANGED <<tv, tq, row_in, date_in, date_out, date_src, row_started>>

----------------------------------------------------------------------------
(* Header rows.  A header cell is text; the sample cells below are the     *)
(* building blocks of the header rows the validator is run on.             *)

Rep(c, n) == List([i \in 1..n |-> c])

Sep == <<" ", "-", " ">>
T_quiz == <<"q","u","i","z">>
T_pillar == <<"p","i","l","l","a","r">>
T_completed == <<"c","o","m","p","l","e","t","e","d">>

SampleId == <<"6","5","a","F">> \o Rep("b", ID_LENGTH - 4)

CellPlain == <<"S","t","a","t","u","s">>
CellPillar == <<"P","i","l","l","a","r">>
CellPillarUpper == <<"P","I","L","L","A","R"," ","1">>
CellChapter == <<"C","h">> \o Sep \o SampleId
CellChapterShortId == <<"C","h">> \o Sep \o Rep("b", ID_LENGTH - 1)
CellChapterLongId == <<"C","h">> \o Sep \o Rep("b", ID_LENGTH + 1)
CellChapterNewline == CellChapter \o <<"\n">>
CellChapterSpace == CellChapter \o <<" ">>
CellChapterBadChar == <<"C","h">> \o Sep \o Rep("b", ID_LENGTH - 1) \o <<"_">>
CellChapterQuizId == <<"C","h">> \o Sep \o <<"Q","u","I","z">> \o Rep("b", ID_LENGTH - 4)
CellQuiz == <<"M","i","d"," ","Q","U","I","Z">> \o Sep \o SampleId
CellQuizPlain == <<"Q","u","i","z">>
CellPillarChapter == CellPillar \o Sep \o SampleId

CellKinds ==
    { CellPlain, CellPillarUpper, CellChapter, CellChapterShortId, CellChapterLongId,
      CellChapterNewline, CellChapterSpace, CellChapterBadChar, CellChapterQuizId,
      CellQuiz, CellQuizPlain, CellPillarChapter }

(* The layout of a well-formed export: 76 columns, "Pillar" in column R,   *)
(* 35 chapter columns inside R..BR, quizzes in AP and BU.                  *)
HeaderLen == COL_BU + 4

ChapterColumns == (18..40) \cup (42..53)

ValidHeader ==
    List([ k \in 1..HeaderLen |->
        LET i == k - 1 IN
        IF i = COL_R THEN CellPillar
        ELSE IF i \in ChapterColumns THEN CellChapter
        ELSE IF i = COL_AP THEN CellQuiz
        ELSE IF i = COL_BU THEN CellQuizPlain
        ELSE CellPlain ])

SetCell(h, i, c) == [h EXCEPT ![i + 1] = c]

----------------------------------------------------------------------------
(* has_24char_id: re.search(r' - ([a-zA-Z0-9]{24})$', header).  Without    *)
(* re.MULTILINE, `$` matches at the end of the text and also just before a *)
(* newline that is the last character of the text.                         *)

has_24char_id(header) ==
    \E p \in 1..Len(header) :
        LET e == p + 2 + ID_LENGTH IN
        /\ MatchAt(header, Sep, p)
        /\ e <= Len(header)
        /\ \A k \in (p + 3)..e : IsAlnum(header[k])
        /\ \/ e = Len(header)
           \/ e + 1 = Len(header) /\ header[e + 1] = "\n"

Min(a, b) == IF a <= b THEN a ELSE b

\* the loop of identify_video_chapters from index i on, appending to acc
RECURSIVE ScanChapters(_, _, _)
ScanChapters(hdr, i, acc) ==
    IF i >= Min(COL_BR + 1, Len(hdr))
    THEN acc
    ELSE ScanChapters(hdr, i + 1,
            IF has_24char_id(At(hdr, i)) /\ ~Contains(Lower(At(hdr, i)), T_quiz)
            THEN Append(acc, i)
            ELSE acc)

identify_video_chapters(hdr) == ScanChapters(hdr, COL_R, <<>>)

(* validate_all after a successful read_csv: the verdict and the value     *)
(* left in self.video_chapter_indices.                                     *)
validate_headers(hdr) ==
    IF COL_R >= Len(hdr) \/ ~Contains(Lower(At(hdr, COL_R)), T_pillar)
    THEN [ok |-> FALSE, video_chapter_indices |-> <<>>]
    ELSE LET idxs == identify_video_chapters(hdr) IN
         IF Len(idxs) # EXPECTED_VIDEO_CHAPTERS
         THEN [ok |-> FALSE, video_chapter_indices |-> idxs]
         ELSE IF COL_AP >= Len(hdr) \/ ~Contains(Lower(At(hdr, COL_AP)), T_quiz)
         THEN [ok |-> FALSE, video_chapter_indices |-> idxs]
         ELSE IF COL_BU >= Len(hdr) \/ ~Contains(Lower(At(hdr, COL_BU)), T_quiz)
         THEN [ok |-> FALSE, video_chapter_indices |-> idxs]
         ELSE [ok |-> TRUE, video_chapter_indices |-> idxs]

----------------------------------------------------------------------------
(* SpecValidate: validate_all on header rows obtained from the well-formed *)
(* layout by replacing cells and by cutting the row short.                 *)

MaxEdits == 1

EditColumns == {COL_START_DATE, COL_R, COL_R + 1, COL_AP, COL_AP + 1, 53, 54, COL_BR,
                COL_BR + 1, COL_BU, COL_BU + 1}

CutLengths == {0, COL_R, COL_R + 1, COL_AP, COL_BR, COL_BU, COL_BU + 1}

ValIdle ==
    /\ headers = <<>> /\ edits = 0 /\ accepted = FALSE
    /\ video_chapter_indices = <<>> /\ vpc = "idle"

ValInit ==
    /\ headers = ValidHeader
    /\ edits = 0
    /\ accepted = FALSE
    /\ video_chapter_indices = <<>>
    /\ vpc = "edit"

EditCell ==
    /\ vpc = "edit"
    /\ edits < MaxEdits
    /\ \E i \in EditColumns, c \in CellKinds :
          /\ i < Len(headers)
          /\ At(headers, i) # c
          /\ headers' = SetCell(headers, i, c)
    /\ edits' = edits + 1
    /\ UNCHANGED <<accepted, video_chapter_indices, vpc>>

CutHeader ==
    /\ vpc = "edit"
    /\ edits < MaxEdits
    /\ \E n \in CutLengths :
          /\ n < Len(headers)
          /\ headers' = SubSeq(headers, 1, n)
    /\ edits' = edits + 1
    /\ UNCHANGED <<accepted, video_chapter_indices, vpc>>

Validate ==
    /\ vpc = "edit"
    /\ LET v == validate_headers(headers) IN
          /\ accepted' = v.ok
          /\ video_chapter_indices' = v.video_chapter_indices
    /\ vpc' = "done"
    /\ UNCHANGED <<headers, edits>>

----------------------------------------------------------------------------
(* Calendar dates (datetime.date) and the outcomes of a parse.             *)

NoDate == [kind |-> "none"]
Raised == [kind |-> "raise"]
Date(y, m, d) == [kind |-> "date", year |-> y, month |-> m, day |-> d]
IsDate(x) == x.kind = "date"

MINYEAR == 1
MAXYEAR == 9999
C_INT_MAX == 2147483647

IsLeap(y) == (y % 4 = 0) /\ ((y % 100 # 0) \/ (y % 400 = 0))

\* calendar.monthrange(year, month)[1]
DaysInMonth(y, m) ==
    IF m = 2 THEN (IF IsLeap(y) THEN 29 ELSE 28)
    ELSE IF m \in {4, 6, 9, 11} THEN 30
    ELSE 31

\* date comparison a <= b
DateLE(a, b) ==
    \/ a.year < b.year
    \/ a.year = b.year /\ a.month < b.month
    \/ a.year = b.year /\ a.month = b.month /\ a.day <= b.day

\* datetime(year, month, day) accepts the triple (otherwise ValueError)
\* as if no month had more than 28 days
ValidDateTo28(y, m, d) ==
    y \in MINYEAR..MAXYEAR /\ m \in 1..12 /\ d \in 1..28

ValidDate(y, m, d) ==
    /\ MINYEAR <= y /\ y <= MAXYEAR
    /\ 1 <= m /\ m <= 12
    /\ 1 <= d /\ d <= DaysInMonth(y, m)

----------------------------------------------------------------------------
(* int(text): optional surrounding white space, an optional sign, decimal  *)
(* digits with single underscores allowed between digits.  The value is a  *)
(* record: ok (no ValueError), the sign, the significant digits, and the   *)
(* value when it has at most nine digits (small).                          *)

DigitVal(c) == (CHOOSE i \in 1..10 : Digits[i] = c) - 1

RECURSIVE DropUnderscores(_)
DropUnderscores(s) ==
    IF s = <<>> THEN <<>>
    ELSE IF Head(s) = "_" THEN DropUnderscores(Tail(s))
    ELSE <<Head(s)>> \o DropUnderscores(Tail(s))

RECURSIVE DropLeadingZeros(_)
DropLeadingZeros(s) ==
    IF Len(s) > 1 /\ Head(s) = "0" THEN DropLeadingZeros(Tail(s)) ELSE s

RECURSIVE DigitsValue(_)
DigitsValue(s) ==
    IF s = <<>> THEN 0
    ELSE DigitsValue(SubSeq(s, 1, Len(s) - 1)) * 10 + DigitVal(s[Len(s)])

IntBodyOK(b) ==
    /\ b # <<>>
    /\ IsDigit(b[1]) /\ IsDigit(b[Len(b)])
    /\ \A i \in 1..Len(b) : IsDigit(b[i]) \/ b[i] = "_"
    /\ \A i \in 1..(Len(b) - 1) : ~(b[i] = "_" /\ b[i + 1] = "_")

RECURSIVE DigitsGreater(_, _)
\* a > b for digit strings of equal length
DigitsGreater(a, b) ==
    IF a = <<>> THEN FALSE
    ELSE IF DigitVal(Head(a)) # DigitVal(Head(b)) THEN DigitVal(Head(a)) > DigitVal(Head(b))
    ELSE DigitsGreater(Tail(a), Tail(b))

IntParse(text) ==
    LET t == Strip(text)
        signed == t # <<>> /\ Head(t) \in {"+", "-"}
        neg == t # <<>> /\ Head(t) = "-"
        body == IF signed THEN Tail(t) ELSE t
    IN  IF ~IntBodyOK(body)
        THEN [ok |-> FALSE, small |-> FALSE, neg |-> FALSE, digits |-> <<>>, val |-> 0]
        ELSE LET d == DropLeadingZeros(DropUnderscores(body)) IN
             [ok |-> TRUE, small |-> Len(d) <= 9, neg |-> neg, digits |-> d,
              val |-> IF Len(d) > 9 THEN 0
                      ELSE IF neg THEN 0 - DigitsValue(d) ELSE DigitsValue(d)]

\* the magnitude written by digit string d exceeds the one written by limit
ExceedsDigits(d, limit) ==
    Len(d) > Len(limit) \/ (Len(d) = Len(limit) /\ DigitsGreater(d, limit))

----------------------------------------------------------------------------
(* str.split(sep) for a one-character separator.                           *)

RECURSIVE SplitAcc(_, _, _, _)
SplitAcc(s, sep, cur, acc) ==
    IF s = <<>> THEN Append(acc, cur)
    ELSE IF Head(s) = sep THEN SplitAcc(Tail(s), sep, <<>>, Append(acc, cur))
    ELSE SplitAcc(Tail(s), sep, Append(cur, Head(s)), acc)

Split(s, sep) == SplitAcc(s, sep, <<>>, <<>>)

----------------------------------------------------------------------------
(* datetime.strptime(text, fmt).date() for the five layouts the parser     *)
(* tries.  A layout is three fields and a separator; the text must match   *)
(* in full.  Field patterns are those of Python's _strptime:               *)
(*   %d  3[0-1] | [1-2]\d | 0[1-9] | [1-9] | " "[1-9]                      *)
(*   %m  1[0-2] | 0[1-9] | [1-9]                                           *)
(*   %y  \d\d  (00..68 -> 20xx, 69..99 -> 19xx)        %Y  \d\d\d\d        *)

AllDigits(t) == \A i \in 1..Len(t) : IsDigit(t[i])

FieldOK(f, t) ==
    CASE f = "d" -> \/ Len(t) = 2 /\ AllDigits(t) /\ DigitsValue(t) \in 1..31
                    \/ Len(t) = 1 /\ AllDigits(t) /\ DigitsValue(t) \in 1..9
                    \/ Len(t) = 2 /\ t[1] = " " /\ IsDigit(t[2]) /\ DigitVal(t[2]) \in 1..9
      [] f = "m" -> \/ Len(t) = 2 /\ AllDigits(t) /\ DigitsValue(t) \in 1..12
                    \/ Len(t) = 1 /\ AllDigits(t) /\ DigitsValue(t) \in 1..9
      [] f = "y" -> Len(t) = 2 /\ AllDigits(t)
      [] f = "Y" -> Len(t) = 4 /\ AllDigits(t)

FieldValue(f, t) ==
    LET n == DigitsValue(SelectSeq(t, IsDigit)) IN
    IF f = "y" THEN (IF n <= 68 THEN 2000 + n ELSE 1900 + n) ELSE n

Formats ==
    << [fields |-> <<"d", "m", "y">>, sep |-> "/"],
       [fields |-> <<"Y", "m", "d">>, sep |-> "/"],
       [fields |-> <<"d", "m", "Y">>, sep |-> "/"],
       [fields |-> <<"Y", "m", "d">>, sep |-> "-"],
       [fields |-> <<"d", "m", "Y">>, sep |-> "-"] >>

FieldIndex(fmt, f) ==
    CHOOSE k \in 1..3 : fmt.fields[k] = f \/ (f = "Y" /\ fmt.fields[k] = "y")

Strptime(text, fmt) ==
    LET parts == Split(text, fmt.sep) IN
    IF Len(parts) # 3 \/ \E k \in 1..3 : ~FieldOK(fmt.fields[k], parts[k])
    THEN NoDate
    ELSE LET yk == FieldIndex(fmt, "Y")
             y == FieldValue(fmt.fields[yk], parts[yk])
             m == FieldValue("m", parts[FieldIndex(fmt, "m")])
             d == FieldValue("d", parts[FieldIndex(fmt, "d")])
         IN  IF ValidDate(y, m, d) THEN Date(y, m, d) ELSE NoDate

RECURSIVE TryFormats(_, _)
\* the loop over the layouts: the first one that parses wins
TryFormats(text, k) ==
    IF k > Len(Formats) THEN NoDate
    ELSE LET r == Strptime(text, Formats[k]) IN
         IF IsDate(r) THEN r ELSE TryFormats(text, k + 1)

----------------------------------------------------------------------------
(* parse_start_date.                                                       *)

T_not_started == <<"n","o","t"," ","s","t","a","r","t","e","d">>

YEAR_PIVOT == 50
LIMIT_POS == <<"2","1","4","7","4","8","1","7","4","7">>   \* C_INT_MAX - 1900
LIMIT_NEG == <<"2","1","4","7","4","8","5","6","4","8">>   \* -(C_INT_MIN) + 2000

\* as if every two-digit year belonged to the 2000s
expand_year_2000(year) == year + 2000

\* if year < 50: year += 2000 else: year += 1900
expand_year(year) == IF year < YEAR_PIVOT THEN year + 2000 ELSE year + 1900

(* The try block: "date" when it returns, "none" when control falls        *)
(* through to the layouts (also after a caught ValueError), "raise" when   *)
(* datetime() fails with OverflowError, which the block does not catch.    *)
SlashBranch(text) ==
    LET parts == Split(text, "/") IN
    IF Len(parts) # 3 THEN NoDate
    ELSE
      LET ymd == Len(parts[1]) = 4
          yi == IntParse(IF ymd THEN parts[1] ELSE parts[3])
          mi == IntParse(parts[2])
          di == IntParse(IF ymd THEN parts[3] ELSE parts[1])
      IN
      IF ~yi.ok \/ ~mi.ok \/ ~di.ok THEN NoDate
      ELSE IF ~(mi.small /\ 1 <= mi.val /\ mi.val <= 12
                /\ di.small /\ 1 <= di.val /\ di.val <= 31) THEN NoDate
      ELSE IF ~yi.small
           THEN IF ExceedsDigits(yi.digits, IF yi.neg THEN LIMIT_NEG ELSE LIMIT_POS)
                THEN Raised ELSE NoDate
      ELSE LET year == IF ymd THEN yi.val ELSE expand_year(yi.val)
           IN IF ValidDate(year, mi.val, di.val)
              THEN Date(year, mi.val, di.val) ELSE NoDate

parse_start_date(date_str) ==
    IF Strip(date_str) = <<>> THEN NoDate
    ELSE LET text == Strip(date_str) IN
         IF Lower(text) = T_not_started THEN NoDate
         ELSE LET r == SlashBranch(text) IN
              IF r.kind # "none" THEN r ELSE TryFormats(text, 1)

----------------------------------------------------------------------------
(* Row completion: is_completed, count_completions, has_started.           *)

\* as if the cell had to read 'completed' and nothing else
is_completed_exact(cell_value) == Lower(cell_value) = T_completed

is_completed(cell_value) ==
    cell_value # <<>> /\ Contains(Lower(cell_value), T_completed)

\* how many positions of the index list idxs point at a completed cell of row
CountCompleted(row, idxs) ==
    Cardinality({k \in 1..Len(idxs) :
                    idxs[k] < Len(row) /\ is_completed(At(row, idxs[k]))})

\* as if every column of the range R..BR were counted as a chapter
count_completions_whole_range(row, vci) ==
    [videos_completed |->
         CountCompleted(row, List([k \in 1..(COL_BR - COL_R + 1) |-> COL_R + k - 1])),
     quizzes_completed |-> CountCompleted(row, quiz_indices)]

count_completions(row, vci) ==
    [videos_completed |-> CountCompleted(row, vci),
     quizzes_completed |-> CountCompleted(row, quiz_indices)]

\* as if only the chapter cells were looked at
has_started_videos_only(row, vci) ==
    \E k \in 1..Len(vci) : vci[k] < Len(row) /\ is_completed(At(row, vci[k]))

has_started(row, vci) ==
    \/ \E k \in 1..Len(vci) : vci[k] < Len(row) /\ is_completed(At(row, vci[k]))
    \/ \E k \in 1..Len(quiz_indices) :
          quiz_indices[k] < Len(row) /\ is_completed(At(row, quiz_indices[k]))

----------------------------------------------------------------------------
(* str(n) for n >= 0, and the month-bucket keys of a summary.              *)

RECURSIVE IntToText(_)
IntToText(n) ==
    IF n < 10 THEN <<Digits[n + 1]>>
    ELSE IntToText(n \div 10) \o <<Digits[(n % 10) + 1]>>

month_names ==
    << <<"j","a","n">>, <<"f","e","b">>, <<"m","a","r">>, <<"a","p","r">>,
       <<"m","a","y">>, <<"j","u","n">>, <<"j","u","l">>, <<"a","u","g">>,
       <<"s","e","p">>, <<"o","c","t">>, <<"n","o","v">>, <<"d","e","c">> >>

P_cumulative == <<"a","t","_","l","e","a","s","t","_","1","_","v","i","d","e","o","_","c","u","m","u","l","a","t","i","v","e","_">>
P_monthly == <<"a","t","_","l","e","a","s","t","_","1","_","v","i","d","e","o","_","m","o","n","t","h","l","y","_">>

\* f'at_least_1_video_cumulative_{year}_{month_name}'
cum_key(year, month_num) ==
    P_cumulative \o IntToText(year) \o <<"_">> \o month_names[month_num]

\* f'at_least_1_video_monthly_{year}_{month_name}'
mon_key(year, month_num) ==
    P_monthly \o IntToText(year) \o <<"_">> \o month_names[month_num]

\* datetime(year, month, monthrange(year, month)[1]).date()
MonthEnd(year, month_num) == Date(year, month_num, DaysInMonth(year, month_num))

----------------------------------------------------------------------------
(* process_and_add_columns.  A file is [name, readable, lines]: its name,  *)
(* whether it can be opened and decoded, and its CSV lines (the header     *)
(* first; no line at all for an empty file).  A filter is [start, end],    *)
(* each a date or NoDate.  The result tells what was returned ("none",     *)
(* "stats", or "raise" for an exception that escapes), the returned        *)
(* dictionary, and whether and what was written to output_path.            *)
(*                                                                         *)
(* The returned dictionary is [d, cols]: d holds the entries with fixed    *)
(* names, cols the month-bucket entries, keyed by their formatted names.   *)

NoFilter == [start |-> NoDate, end |-> NoDate]

read_csv_ok(file) == file.readable /\ file.lines # <<>>

validate_all(file) ==
    IF ~read_csv_ok(file)
    THEN [ok |-> FALSE, video_chapter_indices |-> <<>>]
    ELSE validate_headers(file.lines[1])

\* row[self.COL_START_DATE] if self.COL_START_DATE < len(row) else ""
start_date_str(row) == IF COL_START_DATE < Len(row) THEN At(row, COL_START_DATE) ELSE <<>>

\* as if only the start of the range were compared
PassesFilterFromStart(flt, date_obj) ==
    \/ ~(IsDate(flt.start) /\ IsDate(flt.end))
    \/ /\ IsDate(date_obj)
       /\ DateLE(flt.start, date_obj)

\* the date filter lets a row with this start date through
PassesFilter(flt, date_obj) ==
    \/ ~(IsDate(flt.start) /\ IsDate(flt.end))
    \/ /\ IsDate(date_obj)
       /\ DateLE(flt.start, date_obj) /\ DateLE(date_obj, flt.end)

\* what one turn of the row loop computes from a row
RowEntry(row, vci) ==
    [row |-> row,
     date_info |-> parse_start_date(start_date_str(row)),
     videos_completed |-> count_completions(row, vci).videos_completed,
     quizzes_completed |-> count_completions(row, vci).quizzes_completed,
     progress_pct |-> calculate_progress_percentage(
                          count_completions(row, vci).videos_completed,
                          count_completions(row, vci).quizzes_completed),
     has_started |-> has_started(row, vci)]

\* row + [str(videos_completed), str(quizzes_completed), str(progress_pct)]
new_row(u) ==
    u.row \o <<IntToText(u.videos_completed), IntToText(u.quizzes_completed),
               IntToText(u.progress_pct)>>

new_headers(headers_) ==
    headers_ \o
        << <<"V","i","d","e","o","s"," ","C","o","m","p","l","e","t","e","d">>,
           <<"Q","u","i","z","z","e","s"," ","C","o","m","p","l","e","t","e","d">>,
           <<"P","r","o","g","r","e","s","s"," ","%">> >>

\* as if a row added to the counter of its own tier only
counts_in_tier_exclusive(threshold, progress_pct) == progress_pct = threshold

\* does a row of the given tier add to the counter of the given threshold
counts_in_tier(threshold, progress_pct) ==
    IF threshold = 100 THEN progress_pct = 100 ELSE progress_pct >= threshold

TierCount(user_data, threshold) ==
    Cardinality({j \in 1..Len(user_data) :
                    counts_in_tier(threshold, user_data[j].progress_pct)})

\* the counters after the row loop
completion_stats(total_enrolled_users, user_data) ==
    [total_users |-> total_enrolled_users,
     started |-> Cardinality({j \in 1..Len(user_data) : IsDate(user_data[j].date_info)}),
     started_with_completion |->
         Cardinality({j \in 1..Len(user_data) : user_data[j].has_started}),
     only_1_video |->
         Cardinality({j \in 1..Len(user_data) : user_data[j].videos_completed = 1})]
    @@ ("25_percent" :> TierCount(user_data, 25))
    @@ ("50_percent" :> TierCount(user_data, 50))
    @@ ("75_percent" :> TierCount(user_data, 75))
    @@ ("100_percent" :> TierCount(user_data, 100))

\* as if only the users with a completed video contributed their month
year_month_pairs_with_video(user_data) ==
    {<<user_data[j].date_info.year, user_data[j].date_info.month>> :
        j \in {i \in 1..Len(user_data) : /\ IsDate(user_data[i].date_info)
                                         /\ user_data[i].videos_completed >= 1}}

year_month_pairs(user_data) ==
    {<<user_data[j].date_info.year, user_data[j].date_info.month>> :
        j \in {i \in 1..Len(user_data) : IsDate(user_data[i].date_info)}}

\* (date_info, videos_completed) of the users with a date and at least one video
UserDataSummary(user_data) ==
    SelectSeq(List([j \in 1..Len(user_data) |->
                       <<user_data[j].date_info, user_data[j].videos_completed>>]),
              LAMBDA u : u[2] >= 1 /\ IsDate(u[1]))

\* dict[key] = value
Put(dict, key, value) == (key :> value) @@ dict

RECURSIVE MonthCounters(_, _, _)
\* the two counters of every pair of todo, as the loop over user_data leaves them
MonthCounters(cols, uds, todo) ==
    IF todo = {} THEN cols
    ELSE LET P == CHOOSE Q \in todo : TRUE IN
         MonthCounters(
             Put(Put(cols,
                     cum_key(P[1], P[2]),
                     Cardinality({k \in 1..Len(uds) :
                                     DateLE(uds[k][1], MonthEnd(P[1], P[2]))})),
                 mon_key(P[1], P[2]),
                 Cardinality({k \in 1..Len(uds) :
                                 uds[k][1].year = P[1] /\ uds[k][1].month = P[2]})),
             uds, todo \ {P})

NoResult == [ret |-> "none", stats |-> [d |-> <<>>, cols |-> <<>>],
             wrote |-> FALSE, content |-> <<>>]

RaiseResult == [ret |-> "raise", stats |-> [d |-> <<>>, cols |-> <<>>],
                wrote |-> FALSE, content |-> <<>>]

\* from the end of the row loop on: the early return, or the month counters,
\* the retained list and the file
AfterRows(headers_, total_enrolled_users, user_data) ==
    IF year_month_pairs(user_data) = {}
    THEN [ret |-> "stats",
          stats |-> [d |-> completion_stats(total_enrolled_users, user_data),
                     cols |-> <<>>],
          wrote |-> FALSE, content |-> <<>>]
    ELSE [ret |-> "stats",
          stats |-> [d |-> completion_stats(total_enrolled_users, user_data)
                           @@ [_user_data_summary |-> UserDataSummary(user_data)],
                     cols |-> MonthCounters(<<>>, UserDataSummary(user_data),
                                            year_month_pairs(user_data))],
          wrote |-> TRUE,
          content |-> <<new_headers(headers_)>>
                      \o List([j \in 1..Len(user_data) |-> new_row(user_data[j])])]

\* the row loop on the parsed rows: an exception of the parser escapes, the
\* rows the filter lets through go on
RowLoop(headers_, entries, flt) ==
    IF \E k \in 1..Len(entries) : entries[k].date_info.kind = "raise"
    THEN RaiseResult
    ELSE AfterRows(headers_, Len(entries),
                   SelectSeq(entries, LAMBDA u : PassesFilter(flt, u.date_info)))

process_rows(headers_, rows, vci, flt) ==
    RowLoop(headers_, List([k \in 1..Len(rows) |-> RowEntry(rows[k], vci)]), flt)

\* as if the rows were processed without the schema verdict
process_and_add_columns_unchecked(file, flt) ==
    IF ~read_csv_ok(file) THEN NoResult
    ELSE process_rows(file.lines[1], Tail(file.lines),
                      identify_video_chapters(file.lines[1]), flt)

process_and_add_columns(file, flt) ==
    LET v == validate_all(file) IN
    IF ~v.ok THEN NoResult
    ELSE process_rows(file.lines[1], Tail(file.lines), v.video_chapter_indices, flt)

----------------------------------------------------------------------------
(* normalize_month_columns.                                                *)

\* the longest prefix of s made of characters satisfying Test
TakeWhile(s, Test(_)) ==
    LET n == CHOOSE k \in 0..Len(s) :
                 /\ (k = Len(s) \/ ~Test(s[k + 1]))
                 /\ \A i \in 1..k : Test(s[i])
    IN  SubSeq(s, 1, n)

(* re.match(prefix + r'(\d+)_(\w+)', col): matched, and the two groups.    *)
MatchBucketKey(prefix, col) ==
    LET rest == SubSeq(col, Len(prefix) + 1, Len(col))
        g1 == TakeWhile(rest, IsDigit)
        after == SubSeq(rest, Len(g1) + 1, Len(rest))
        g2 == IF after # <<>> THEN TakeWhile(Tail(after), IsWordChar) ELSE <<>>
    IN  IF /\ MatchAt(col, prefix, 1)
           /\ g1 # <<>>
           /\ after # <<>> /\ Head(after) = "_"
           /\ g2 # <<>>
        THEN [matched |-> TRUE, year |-> g1, month_abbr |-> g2]
        ELSE [matched |-> FALSE, year |-> <<>>, month_abbr |-> <<>>]

\* the (year, month) pair a column name stands for, if it is a cumulative column
BucketOfKey(col) ==
    LET m == MatchBucketKey(P_cumulative, col) IN
    IF m.matched /\ InSeq(m.month_abbr, month_names)
    THEN {<<IntParse(m.year).val, CHOOSE k \in 1..12 : month_names[k] = m.month_abbr>>}
    ELSE {}

\* the (year, month) pairs named by the cumulative columns of one dictionary
BucketsOf(stats) == UNION { BucketOfKey(col) : col \in DOMAIN stats.cols }

\* as if only the first dictionary were scanned for buckets
AllYearMonthsFirstOnly(stats_list) ==
    IF stats_list = <<>> THEN {} ELSE BucketsOf(stats_list[1])

AllYearMonths(stats_list) == UNION { BucketsOf(stats_list[i]) : i \in 1..Len(stats_list) }

\* stats.get('_user_data_summary', [])
RetainedOf(stats) ==
    IF "_user_data_summary" \in DOMAIN stats.d THEN stats.d["_user_data_summary"] ELSE <<>>

\* as if the cumulative recount took the learners of the month alone
RecountCumulativeThisMonth(uds, P) ==
    Cardinality({k \in 1..Len(uds) : IsDate(uds[k][1])
                                     /\ uds[k][1].year = P[1] /\ uds[k][1].month = P[2]})

RecountCumulative(uds, P) ==
    Cardinality({k \in 1..Len(uds) : IsDate(uds[k][1])
                                     /\ DateLE(uds[k][1], MonthEnd(P[1], P[2]))})

\* as if the monthly recount took every learner up to the month end
RecountMonthlyUpToMonth(uds, P) ==
    Cardinality({k \in 1..Len(uds) : IsDate(uds[k][1])
                                     /\ DateLE(uds[k][1], MonthEnd(P[1], P[2]))})

RecountMonthly(uds, P) ==
    Cardinality({k \in 1..Len(uds) : IsDate(uds[k][1])
                                     /\ uds[k][1].year = P[1] /\ uds[k][1].month = P[2]})

\* as if the retained list were left in the dictionary
KeepRetained(d) == d

\* del stats['_user_data_summary'] when present
DropRetained(d) == [k \in (DOMAIN d) \ {"_user_data_summary"} |-> d[k]]

\* the smallest pair of a non-empty set, in the order of sorted()
MinPair(S) ==
    CHOOSE P \in S : \A Q \in S : P[1] < Q[1] \/ (P[1] = Q[1] /\ P[2] <= Q[2])

\* as if a missing counter were always filled with 0
FillValueKeepExisting(cols, key, user_data_summary, recount) ==
    IF key \in DOMAIN cols THEN cols[key] ELSE 0

\* the value the loop leaves under key: recounted when the retained list is
\* not empty, otherwise what was there, otherwise 0
FillValue(cols, key, user_data_summary, recount) ==
    IF user_data_summary # <<>> THEN recount
    ELSE IF key \in DOMAIN cols THEN cols[key] ELSE 0

RECURSIVE FillBuckets(_, _, _)
\* the loop over sorted(all_year_months) for one dictionary
FillBuckets(cols, user_data_summary, todo) ==
    IF todo = {} THEN cols
    ELSE LET P == MinPair(todo)
             ck == cum_key(P[1], P[2])
             mk == mon_key(P[1], P[2])
             c1 == Put(cols, ck, FillValue(cols, ck, user_data_summary,
                                           RecountCumulative(user_data_summary, P)))
             c2 == Put(c1, mk, FillValue(c1, mk, user_data_summary,
                                         RecountMonthly(user_data_summary, P)))
         IN  FillBuckets(c2, user_data_summary, todo \ {P})

\* the body of the loop over all_stats
normalize_one(stats, all_year_months) ==
    [d |-> DropRetained(stats.d),
     cols |-> FillBuckets(stats.cols, RetainedOf(stats), all_year_months)]

normalize_month_columns(stats_list) ==
    LET all_year_months == AllYearMonths(stats_list) IN
    IF all_year_months = {} THEN stats_list
    ELSE List([i \in 1..Len(stats_list) |-> normalize_one(stats_list[i], all_year_months)])

----------------------------------------------------------------------------
(* File names and the batch gate.                                          *)

T_prefix == <<"a","i"," ","s","a","m","a","r","t","h"," ","-"," ">>
T_csv == <<".", "c", "s", "v">>
T_ai_samarth == <<"a","i"," ","s","a","m","a","r","t","h">>

NotDash(c) == c # "-"

(* re.search(r'AI Samarth - ([^-]+)-\d+\.csv', filename, re.IGNORECASE)    *)
(* tried at position p: the match and its group.                           *)
LabelAt(filename, low, p) ==
    LET rest == SubSeq(filename, p + Len(T_prefix), Len(filename))
        g == TakeWhile(rest, NotDash)
        after == SubSeq(rest, Len(g) + 1, Len(rest))
        num == IF after # <<>> THEN TakeWhile(Tail(after), IsDigit) ELSE <<>>
        tail_ == IF after # <<>> THEN SubSeq(after, Len(num) + 2, Len(after)) ELSE <<>>
    IN  [matched |-> /\ MatchAt(low, T_prefix, p)
                     /\ g # <<>>
                     /\ after # <<>>
                     /\ num # <<>>
                     /\ MatchAt(Lower(tail_), T_csv, 1),
         group |-> g]

NoLabel == [found |-> FALSE, label |-> <<>>]

extract_language_from_filename(filename) ==
    LET low == Lower(filename)
        hits == {p \in 1..Len(filename) : LabelAt(filename, low, p).matched}
    IN  IF hits = {} THEN NoLabel
        ELSE LET p == CHOOSE q \in hits : \A r \in hits : q <= r IN
             [found |-> TRUE, label |-> Strip(LabelAt(filename, low, p).group)]

L_Unknown == <<"U","n","k","n","o","w","n">>

\* AISmarthProcessor.extract_language
extract_language(filename) ==
    LET r == extract_language_from_filename(filename) IN
    IF r.found THEN r.label ELSE L_Unknown

L_English == <<"E","n","g","l","i","s","h">>
L_Hindi == <<"H","i","n","d","i">>
L_Marathi == <<"M","a","r","a","t","h","i">>
L_Bengali == <<"B","e","n","g","a","l","i">>
L_Odia == <<"O","d","i","a">>

REQUIRED_LANGUAGES == {L_English, L_Hindi, L_Marathi, L_Bengali, L_Odia}

\* found_languages: the non-empty labels of the files, in file order
found_languages(names) ==
    SelectSeq(List([k \in 1..Len(names) |-> extract_language_from_filename(names[k])]),
              LAMBDA r : r.found /\ r.label # <<>>)

\* the labels that more than one file carries
duplicates(found) ==
    {found[i].label :
        i \in {k \in 1..Len(found) :
                 \E j \in 1..Len(found) : j # k /\ found[j].label = found[k].label}}

found_languages_set(found) == {found[k].label : k \in 1..Len(found)}

OkMessage == [kind |-> "ok", duplicates |-> {}, missing |-> {}, extra |-> {}, count |-> 0]

LanguageError(kind, dups, missing, extra) ==
    [ok |-> FALSE,
     msg |-> [kind |-> kind, duplicates |-> dups, missing |-> missing, extra |-> extra,
              count |-> 0]]

\* the checks of validate_language_files on the labels found
CheckLanguages(found) ==
    IF duplicates(found) # {}
    THEN LanguageError("duplicate", duplicates(found), {}, {})
    ELSE IF \/ REQUIRED_LANGUAGES \ found_languages_set(found) # {}
            \/ found_languages_set(found) \ REQUIRED_LANGUAGES # {}
    THEN LanguageError("invalid", {},
                       REQUIRED_LANGUAGES \ found_languages_set(found),
                       found_languages_set(found) \ REQUIRED_LANGUAGES)
    ELSE [ok |-> TRUE, msg |-> OkMessage]

\* as if the comparison ignored the case of the labels
Folded(found) == List([k \in 1..Len(found) |->
    IF \E l \in REQUIRED_LANGUAGES : Lower(l) = Lower(found[k].label)
    THEN [found[k] EXCEPT !.label = CHOOSE l \in REQUIRED_LANGUAGES :
                                        Lower(l) = Lower(found[k].label)]
    ELSE found[k]])

validate_language_files_folded(names) == CheckLanguages(Folded(found_languages(names)))

\* as if only duplicate and unexpected labels were looked for
validate_language_files_no_missing(names) ==
    IF duplicates(found_languages(names)) # {}
    THEN LanguageError("duplicate", duplicates(found_languages(names)), {}, {})
    ELSE IF found_languages_set(found_languages(names)) \ REQUIRED_LANGUAGES # {}
    THEN LanguageError("invalid", {}, {},
                       found_languages_set(found_languages(names)) \ REQUIRED_LANGUAGES)
    ELSE [ok |-> TRUE, msg |-> OkMessage]

validate_language_files(names) == CheckLanguages(found_languages(names))

----------------------------------------------------------------------------
(* Sample rows, datasets and file names.                                   *)

V_Completed == <<"C","o","m","p","l","e","t","e","d">>
V_InProgress == <<"I","n"," ","P","r","o","g","r","e","s","s">>
V_Blank == <<>>

D_Jan == <<"1","5","/","0","1","/","2","5">>
D_Feb == <<"2","0","2","5","/","0","2","/","1","0">>
D_Dec == <<"3","1","/","1","2","/","2","4">>
D_NotStarted == <<"N","o","t"," ","S","t","a","r","t","e","d">>

\* the chapter columns of the well-formed layout, in column order
ChapterSeq == identify_video_chapters(ValidHeader)

\* a row of n cells: start date, the first nv chapters completed, two quiz cells
MkRow(n, date_cell, nv, q1, q2) ==
    List([k \in 1..n |->
        LET i == k - 1 IN
        IF i = COL_START_DATE THEN date_cell
        ELSE IF \E j \in 1..nv : ChapterSeq[j] = i THEN V_Completed
        ELSE IF i = COL_AP THEN q1
        ELSE IF i = COL_BU THEN q2
        ELSE IF i \in ChapterColumns THEN V_InProgress
        ELSE V_Blank])

RowNames == {"jan_1", "feb_all", "dec_26", "nodate_9", "jan_quiz", "blank_18"}

RowOf(r) ==
    CASE r = "jan_1"    -> MkRow(HeaderLen, D_Jan, 1, V_Blank, V_Blank)
      [] r = "feb_all"  -> MkRow(HeaderLen, D_Feb, COMPLETION_100_VIDEOS, V_Completed, V_Completed)
      [] r = "dec_26"   -> MkRow(HeaderLen, D_Dec, COMPLETION_75_VIDEOS, V_Completed, V_Blank)
      [] r = "nodate_9" -> MkRow(HeaderLen, D_NotStarted, COMPLETION_25_VIDEOS, V_Blank, V_Blank)
      [] r = "jan_quiz" -> MkRow(HeaderLen, D_Jan, 0, V_Completed, V_InProgress)
      [] r = "blank_18" -> MkRow(HeaderLen, V_Blank, COMPLETION_50_VIDEOS, V_Blank, V_Blank)

HeaderOf(h) ==
    CASE h = "valid"    -> ValidHeader
      [] h = "nopillar" -> SetCell(ValidHeader, COL_R, CellPlain)
      [] h = "short"    -> SubSeq(ValidHeader, 1, COL_BU)
      [] OTHER          -> ValidHeader

(* A dataset is [hdr, rows]: the kind of its header ("unreadable" for a    *)
(* file that cannot be opened, "nofile" for an empty file) and the names   *)
(* of its rows.                                                            *)
FileOf(name, ds) ==
    [name |-> name,
     readable |-> ds.hdr # "unreadable",
     lines |-> IF ds.hdr \in {"unreadable", "nofile"} THEN <<>>
               ELSE <<HeaderOf(ds.hdr)>> \o List([k \in 1..Len(ds.rows) |-> RowOf(ds.rows[k])])]

FileName(label, number) == <<"A","I"," ","S","a","m","a","r","t","h"," ","-"," ">> \o label \o <<"-">> \o number \o T_csv

L_Tamil == <<"T","a","m","i","l">>
L_english == <<"e","n","g","l","i","s","h">>

N_English == FileName(L_English, <<"1">>)
N_Hindi == FileName(L_Hindi, <<"1","7">>)
N_Marathi == FileName(L_Marathi, <<"1">>)
N_Bengali == FileName(L_Bengali, <<"1">>)
N_Odia == FileName(L_Odia, <<"1">>)
N_Tamil == FileName(L_Tamil, <<"1">>)
N_english == FileName(L_english, <<"1">>)
N_English2 == FileName(L_English, <<"2">>)
N_NoLabel == <<"A","I"," ","S","a","m","a","r","t","h"," ","r","e","p","o","r","t",".","c","s","v">>
N_Notes == <<"n","o","t","e","s",".","t","x","t">>

JanFilter == [start |-> Date(2025, 1, 1), end |-> Date(2025, 1, 31)]

----------------------------------------------------------------------------
(* The body of the loop over the files that both entry points share        *)
(* (report_code.main and app.main): run the processor on one file and, if  *)
(* it returns a dictionary, label it and append it to all_stats.           *)

NoMessage == [kind |-> "none", duplicates |-> {}, missing |-> {}, extra |-> {}, count |-> 0]

Labelled(stats, name) ==
    [stats EXCEPT !.d = stats.d @@ [language |-> extract_language(name), filename |-> name]]

OutputOf(r) == [ret |-> r.ret, wrote |-> r.wrote, content |-> r.content]

----------------------------------------------------------------------------
(* SpecAgg: the processor run on two datasets of up to MaxRows rows each,  *)
(* with and without a date filter, followed by normalize_month_columns on  *)
(* the list of the dictionaries returned.                                  *)

MaxRows == 2

RowSeqs(n) == UNION {[1..k -> RowNames] : k \in 0..n}

AggDatasets ==
    {[hdr |-> "valid", rows |-> rs] : rs \in RowSeqs(MaxRows)}
    \cup {[hdr |-> "nopillar", rows |-> <<"jan_1">>], [hdr |-> "unreadable", rows |-> <<>>]}

\* the second dataset is one row shorter
AggSecond ==
    {ds \in AggDatasets : Len(ds.rows) < MaxRows}

AggNames == <<N_English, N_Hindi>>

AggFilters == {NoFilter, JanFilter}

(* process_and_add_columns, tabulated over the datasets and filters of the *)
(* specifications (the file name plays no part in it).                     *)
Processed ==
    Table([ds \in AggDatasets, f \in AggFilters |->
              process_and_add_columns(FileOf(<<>>, ds), f)])

AggInit ==
    /\ TierIdle /\ ValIdle
    /\ entry = "lib"
    /\ files = <<>>
    /\ file_idx = 1
    /\ pc = "agg"
    /\ all_stats = <<>>
    /\ outputs = <<>>
    /\ message = NoMessage
    /\ reported = <<>>
    /\ calls = <<>>
    /\ date_filter \in AggFilters

\* the processor run on dataset ds under the given name, with result r
AggBody(name, ds, r) ==
    /\ files' = Append(files, [name |-> name, ds |-> ds])
    /\ outputs' = Append(outputs, OutputOf(r))
    /\ all_stats' = IF r.ret = "stats"
                    THEN Append(all_stats, Labelled(r.stats, name))
                    ELSE all_stats
    /\ pc' = IF r.ret = "raise" THEN "crashed" ELSE pc

AggProcess ==
    /\ pc = "agg"
    /\ Len(files) < Len(AggNames)
    /\ \E ds \in (IF files = <<>> THEN AggDatasets ELSE AggSecond) :
          AggBody(AggNames[Len(files) + 1], ds, Processed[ds, date_filter])
    /\ calls' = Append(calls, "process_and_add_columns")
    /\ UNCHANGED <<entry, file_idx, message, reported, date_filter>>

AggNormalize ==
    /\ pc = "agg"
    /\ all_stats' = normalize_month_columns(all_stats)
    /\ pc' = "normalized"
    /\ calls' = Append(calls, "normalize_month_columns")
    /\ UNCHANGED <<entry, files, file_idx, outputs, message, reported, date_filter>>

AggNext ==
    \/ AggProcess /\ UNCHANGED <<tierVars, valVars>>
    \/ AggNormalize /\ UNCHANGED <<tierVars, valVars>>

SpecAgg == AggInit /\ [][AggNext]_vars

----------------------------------------------------------------------------
(* SpecTier and SpecValidate.                                              *)

PipeIdle ==
    /\ entry = "lib" /\ files = <<>> /\ file_idx = 1 /\ pc = "idle"
    /\ all_stats = <<>> /\ outputs = <<>> /\ message = NoMessage
    /\ reported = <<>> /\ calls = <<>> /\ date_filter = NoFilter

TierNext == TierCalc /\ UNCHANGED <<valVars, pipeVars>>

InitTier == TierInit /\ ValIdle /\ PipeIdle

SpecTier == InitTier /\ [][TierNext]_vars

ValNext ==
    \/ EditCell /\ UNCHANGED <<tierVars, pipeVars>>
    \/ CutHeader /\ UNCHANGED <<tierVars, pipeVars>>
    \/ Validate /\ UNCHANGED <<tierVars, pipeVars>>

InitValidate == ValInit /\ TierIdle /\ PipeIdle

SpecValidate == InitValidate /\ [][ValNext]_vars

----------------------------------------------------------------------------
(* SpecRow: the row loop's counting (count_completions and the tier) on    *)
(* rows of any length and content, for datasets whose header validate_all  *)
(* has accepted.                                                           *)

\* accepted layouts: the well-formed one; the pillar column itself a chapter
\* column; the chapter columns spread up to column BR
PillarChapterHeader ==
    SetCell(SetCell(ValidHeader, COL_R, CellPillarChapter), 53, CellPlain)

SpreadHeader ==
    List([ k \in 1..HeaderLen |->
        LET i == k - 1 IN
        IF i = COL_R THEN CellPillar
        ELSE IF i \in (34..40) \cup (42..(COL_BR + 1)) THEN CellChapter
        ELSE IF i = COL_AP THEN CellQuiz
        ELSE IF i = COL_BU THEN CellQuizPlain
        ELSE CellPlain ])

RowHeaders == {ValidHeader, PillarChapterHeader, SpreadHeader}

V_NotCompleted == <<"N","O","T"," ","C","O","M","P","L","E","T","E","D">>

RowLengths == {0, COL_START_DATE, COL_START_DATE + 1, COL_R + 1, COL_AP, COL_AP + 1, 54, COL_BR + 1,
               COL_BU, COL_BU + 1, HeaderLen, HeaderLen + 4}

\* chapter cells 'Completed', 'In Progress', blank, then 'In Progress' on
ScenarioRow ==
    SetCell(MkRow(HeaderLen, D_Jan, 1, V_Blank, V_Blank), ChapterSeq[3], V_Blank)

\* a row with 'completed' in lower case in a quiz cell and a date cell alone
QuizOnlyRow(date_cell) ==
    SetCell(SetCell(Rep(V_Blank, HeaderLen), COL_BU, T_completed), COL_START_DATE, date_cell)

RowInputs ==
    {ScenarioRow, QuizOnlyRow(D_Jan), QuizOnlyRow(D_NotStarted), QuizOnlyRow(V_Blank)}
    \cup {Rep(c, n) : n \in RowLengths, c \in {V_Completed, V_NotCompleted, V_InProgress, V_Blank}}
    \cup {MkRow(n, D_Jan, nv, q1, q2) :
             n \in RowLengths, nv \in {0, COMPLETION_25_VIDEOS, COMPLETION_100_VIDEOS},
             q1 \in {V_Completed, V_Blank}, q2 \in {V_Completed, V_Blank}}

InitRow ==
    /\ headers \in RowHeaders
    /\ video_chapter_indices = validate_headers(headers).video_chapter_indices
    /\ accepted = validate_headers(headers).ok
    /\ edits = 0
    /\ vpc = "done"
    /\ row_in \in RowInputs
    /\ tv = 0 /\ tq = 0 /\ tpct = 0
    /\ tpc = "count"
    /\ date_in = <<>> /\ date_out = [kind |-> "none"] /\ date_src = [kind |-> "none"]
    /\ row_started = FALSE
    /\ PipeIdle

\* one turn of the row loop up to the tier: the start date of the row,
\* count_completions, calculate_progress_percentage and has_started
CountRow ==
    /\ tpc = "count"
    /\ accepted
    /\ tv' = count_completions(row_in, video_chapter_indices).videos_completed
    /\ tq' = count_completions(row_in, video_chapter_indices).quizzes_completed
    /\ tpct' = calculate_progress_percentage(
                   count_completions(row_in, video_chapter_indices).videos_completed,
                   count_completions(row_in, video_chapter_indices).quizzes_completed)
    /\ date_in' = start_date_str(row_in)
    /\ date_out' = parse_start_date(start_date_str(row_in))
    /\ row_started' = has_started(row_in, video_chapter_indices)
    /\ tpc' = "done"
    /\ UNCHANGED <<row_in, date_src>>

RowNext == CountRow /\ UNCHANGED <<valVars, pipeVars>>

SpecRow == InitRow /\ [][RowNext]_vars

----------------------------------------------------------------------------
(* SpecDate: parse_start_date on the texts a Start Date cell may hold and  *)
(* on calendar dates written as DD/MM/YY.                                  *)

DateTexts ==
    { <<>>,
      <<" "," "," ">>,
      <<"\t">>,
      <<"N","o","t"," ","S","t","a","r","t","e","d">>,
      <<"n","o","t"," ","s","t","a","r","t","e","d">>,
      <<"N","O","T"," ","S","T","A","R","T","E","D">>,
      <<" ","N","o","t"," ","S","t","a","r","t","e","d"," ">>,
      <<"-">>,
      <<"-","-">>,
      <<"n","/","a">>,
      <<"N","/","A">>,
      <<"N","A">>,
      <<"0","6","/","1","1","/","2","5">>,
      <<"2","0","2","5","/","1","1","/","0","6">>,
      <<"0","1","/","0","2","/","0","3">>,
      <<"6","/","1","1","/","2","5">>,
      <<"0","6","/","1","1","/","2","0","2","5">>,
      <<"0","1","/","0","2","/","9","0","0","0">>,
      <<"0","1","/","0","2","/","4","9">>,
      <<"0","1","/","0","2","/","5","0">>,
      <<"0","1","/","0","2","/","9","9">>,
      <<"0","1","/","0","2","/","0","0">>,
      <<"3","1","/","1","2","/","2","4">>,
      <<"2","9","/","0","2","/","2","4">>,
      <<"2","9","/","0","2","/","2","3">>,
      <<"3","1","/","0","4","/","2","5">>,
      <<"0","0","/","0","1","/","2","5">>,
      <<"3","2","/","0","1","/","2","5">>,
      <<"0","1","/","1","3","/","2","5">>,
      <<"0","1","/","0","0","/","2","5">>,
      <<"2","0","2","5","/","1","3","/","0","1">>,
      <<"2","0","2","5","/","0","1","/","3","2">>,
      <<"2","0","2","5","/","0","2","/","3","0">>,
      <<"0","0","0","0","/","0","1","/","0","1">>,
      <<"9","9","9","9","/","1","2","/","3","1">>,
      <<"a","b","/","0","1","/","2","5">>,
      <<"0","1","/","x","x","/","2","5">>,
      <<"0","1","/","0","2","/">>,
      <<"1","/","2">>,
      <<"1","/","2","/","3","/","4">>,
      <<" ","6","/","1","1","/","2","5">>,
      <<"0","6"," ","/","1","1","/"," ","2","5">>,
      <<"+","6","/","1","1","/","2","5">>,
      <<"-","6","/","1","1","/","2","5">>,
      <<"1","_","0","/","0","1","/","2","5">>,
      <<"0","1","/","0","1","/","-","5">>,
      <<"1","5","/","0","1","/","2","5">>,
      <<"2","0","2","5","/","0","2","/","1","0">>,
      <<"0","1","/","0","1","/","2","1","4","7","4","8","1","7","4","7">>,
      <<"0","1","/","0","1","/","2","1","4","7","4","8","1","7","4","8">>,
      <<"0","1","/","0","1","/","9","9","9","9","9","9","9","9","9","9","9">>,
      <<"0","1","/","0","1","/","-","2","1","4","7","4","8","5","6","4","8">>,
      <<"0","1","/","0","1","/","-","2","1","4","7","4","8","5","6","4","9">>,
      <<"2","0","2","5","-","1","1","-","0","6">>,
      <<"0","6","-","1","1","-","2","0","2","5">>,
      <<"0","6","-","1","1","-","2","5">>,
      <<"2","0","2","5","-","1","-","6">>,
      <<"2","0","2","5","/","1","1","/","0","6"," ","1","0",":","0","0">>,
      <<"N","o","v"," ","6"," ","2","0","2","5">>,
      <<"6",".","1","1",".","2","0","2","5">>,
      <<"2","0","2","5","1","1","0","6">>,
      <<"0","6","/","1","1","/","8","0","9","9">>,
      <<"0","6","/","1","1","/","8","1","0","0">> }

\* n as two digits (n in 0..99)
Pad2(n) == <<Digits[(n \div 10) + 1], Digits[(n % 10) + 1]>>

\* D.strftime('%d/%m/%y')
FormatDMY(D) ==
    Pad2(D.day) \o <<"/">> \o Pad2(D.month) \o <<"/">> \o Pad2(D.year % 100)

CalendarYears ==
    {MINYEAR, 1896, 1900, 1949, 1950, 1999, 2000, 2024, 2025, 2049, 2050, 2100, 2400, MAXYEAR}

CalendarDates ==
    {Date(t[1], t[2], t[3]) :
        t \in {u \in CalendarYears \X {1, 2, 11, 12} \X {1, 6, 28, 29, 30, 31} :
                  u[3] <= DaysInMonth(u[1], u[2])}}

InitDate ==
    /\ \/ date_in \in DateTexts /\ date_src = NoDate
       \/ \E D \in CalendarDates : date_in = FormatDMY(D) /\ date_src = D
    /\ date_out = NoDate
    /\ tpc = "parse"
    /\ tv = 0 /\ tq = 0 /\ tpct = 0 /\ row_in = <<>>
    /\ row_started = FALSE
    /\ ValIdle /\ PipeIdle

\* date_obj = parse_start_date(start_date_str); an exception leaves "raise"
ParseDate ==
    /\ tpc = "parse"
    /\ date_out' = parse_start_date(date_in)
    /\ tpc' = "done"
    /\ UNCHANGED <<tv, tq, tpct, row_in, date_in, date_src, row_started>>

DateNext == ParseDate /\ UNCHANGED <<valVars, pipeVars>>

SpecDate == InitDate /\ [][DateNext]_vars

----------------------------------------------------------------------------
(* Spec: the two pipeline entry points, report_code.main ("cli") and       *)
(* app.main ("app"), run on a batch of files.  files is the folder listing *)
(* (cli) or the uploads (app); the output folders start empty.             *)

MaxOdd == 1

PipeDatasets ==
    { [hdr |-> "valid", rows |-> <<"jan_1", "dec_26">>],
      [hdr |-> "valid", rows |-> <<"feb_all">>],
      [hdr |-> "valid", rows |-> <<"nodate_9">>],
      [hdr |-> "valid", rows |-> <<>>],
      [hdr |-> "nopillar", rows |-> <<"jan_1">>],
      [hdr |-> "unreadable", rows |-> <<>>] }

DefaultDataset == [hdr |-> "valid", rows |-> <<"jan_1", "dec_26">>]

B_ok == <<N_English, N_Hindi, N_Marathi, N_Bengali, N_Odia>>
B_notes == <<N_Odia, N_Notes, N_Bengali, N_Marathi, N_Hindi, N_English>>
B_four == <<N_English, N_Hindi, N_Marathi, N_Bengali>>
B_six == <<N_English, N_Hindi, N_Marathi, N_Bengali, N_Odia, N_Tamil>>
B_dup == <<N_English, N_English2, N_Hindi, N_Marathi, N_Bengali>>
B_extra == <<N_English, N_Hindi, N_Marathi, N_Bengali, N_Tamil>>
B_nolabel == <<N_English, N_Hindi, N_Marathi, N_NoLabel, N_Odia>>
B_lower == <<N_english, N_Hindi, N_Marathi, N_Bengali, N_Odia>>
B_none == <<>>

VariedBatches == {B_ok, B_notes}
FixedBatches == {B_four, B_six, B_dup, B_extra, B_nolabel, B_lower, B_none}

\* one dataset per file: all alike except for at most MaxOdd files
DataVectors(n) ==
    { v \in [1..n -> PipeDatasets] :
        \E base \in PipeDatasets : Cardinality({k \in 1..n : v[k] # base}) <= MaxOdd }

WithData(names, v) == List([k \in 1..Len(names) |-> [name |-> names[k], ds |-> v[k]]])

PipeBatches ==
    { WithData(names, v) : names \in {B_ok}, v \in DataVectors(Len(B_ok)) }
    \cup { WithData(names, v) : names \in {B_notes}, v \in DataVectors(Len(B_notes)) }
    \cup { WithData(names, [k \in 1..Len(names) |-> DefaultDataset]) : names \in FixedBatches }

\* the start date parse_start_date reads from each sample row
SampleDates == Table([r \in RowNames |-> parse_start_date(start_date_str(RowOf(r)))])

\* all_dates of the scan for the date range: the dates of every file that can be
\* read, whatever its header
all_dates(fs) ==
    UNION { {SampleDates[fs[k].ds.rows[j]] : j \in 1..Len(fs[k].ds.rows)} :
              k \in {i \in 1..Len(fs) : fs[i].ds.hdr # "unreadable"} }
        \ {NoDate, Raised}

MinDate(S) == CHOOSE d \in S : \A e \in S : DateLE(d, e)
MaxDate(S) == CHOOSE d \in S : \A e \in S : DateLE(e, d)

(* The two date inputs.  With dates in the data both inputs hold a date    *)
(* between the smallest and the largest one, by default those two; with    *)
(* no date in the data they are empty unless the user picks dates.         *)
DateInputsFor(dates) ==
    IF dates = {} THEN {NoFilter, JanFilter}
    ELSE {[start |-> MinDate(dates), end |-> MaxDate(dates)]}
         \cup {f \in {JanFilter} : /\ DateLE(MinDate(dates), f.start)
                                   /\ DateLE(f.end, MaxDate(dates))}

DateInputs(fs) == DateInputsFor(all_dates(fs))

\* the dates found in the sample rows
SampleDateSet == {SampleDates[r] : r \in RowNames} \ {NoDate, Raised}

PipeFilters ==
    {NoFilter, JanFilter}
    \cup {[start |-> a, end |-> b] : a \in SampleDateSet, b \in SampleDateSet}

(* process_and_add_columns, tabulated over the datasets and filters of the *)
(* pipeline.                                                               *)
PipeProcessed ==
    Table([ds \in PipeDatasets, f \in PipeFilters |->
              process_and_add_columns(FileOf(<<>>, ds), f)])

PipeInit ==
    /\ TierIdle /\ ValIdle
    /\ entry \in {"cli", "app"}
    /\ files \in PipeBatches
    /\ date_filter = NoFilter
    /\ file_idx = 1
    /\ pc = "start"
    /\ all_stats = <<>>
    /\ outputs = <<>>
    /\ message = NoMessage
    /\ reported = <<>>
    /\ calls = <<>>

Names(fs) == List([k \in 1..Len(fs) |-> fs[k].name])

Reject(kind) == [NoMessage EXCEPT !.kind = kind]

\* find_aisamarth_files: the files of the folder whose name contains 'ai samarth'
find_aisamarth_files(listing) ==
    SelectSeq(listing, LAMBDA f : Contains(Lower(f.name), T_ai_samarth))

\* the uploads as written to the upload folder: a later upload overwrites an
\* earlier one of the same name
SavedUploads(uploads) ==
    List([k \in 1..Len(uploads) |->
            LET last == CHOOSE j \in 1..Len(uploads) :
                            /\ uploads[j].name = uploads[k].name
                            /\ \A i \in 1..Len(uploads) :
                                  uploads[i].name = uploads[k].name => i <= j
            IN  [name |-> uploads[k].name, ds |-> uploads[last].ds]])

\* the outcome of the gate for the files found: where to go and the message
GateOutcome(found) ==
    IF found = <<>> THEN [pc |-> "rejected", message |-> Reject("nofiles")]
    ELSE IF Len(found) # REQUIRED_FILE_COUNT
    THEN [pc |-> "rejected", message |-> [Reject("count") EXCEPT !.count = Len(found)]]
    ELSE LET v == validate_language_files(Names(found)) IN
         IF ~v.ok THEN [pc |-> "rejected", message |-> v.msg]
         ELSE [pc |-> "loop", message |-> v.msg]

\* the gate taken on the batch fs with outcome g: the batch is kept, the
\* verdict and the message are recorded
GateTaken(fs, g) ==
    /\ files' = fs
    /\ pc' = g.pc
    /\ message' = g.message

CliGateOn(found) == GateTaken(found, GateOutcome(found))

CliGate ==
    /\ pc = "start" /\ entry = "cli"
    /\ CliGateOn(find_aisamarth_files(files))
    /\ calls' = Append(calls, "gate")
    /\ UNCHANGED <<entry, file_idx, all_stats, outputs, reported, date_filter>>

\* the uploads are saved only when there are five of them; the date inputs
\* are shown only when the labels are accepted
AppGateOn(saved, g) ==
    /\ GateTaken(saved, g)
    /\ IF g.pc = "loop"
       THEN \E f \in DateInputs(saved) : date_filter' = f
       ELSE UNCHANGED date_filter

AppGate ==
    /\ pc = "start" /\ entry = "app"
    /\ AppGateOn(IF Len(files) = REQUIRED_FILE_COUNT THEN SavedUploads(files) ELSE files,
                 GateOutcome(files))
    /\ calls' = Append(calls, "gate")
    /\ UNCHANGED <<entry, file_idx, all_stats, outputs, reported>>

\* print_summary divides by stats['total_users']
print_summary_raises(stats) == stats.d["total_users"] = 0

\* the exception, if any, that ends the loop on a file with result r
LoopException(r) ==
    IF r.ret = "raise" THEN "OverflowError"
    ELSE IF r.ret = "stats" /\ entry = "cli" /\ print_summary_raises(r.stats)
    THEN "ZeroDivisionError"
    ELSE "none"

\* the body of the loop for file f, whose processing gives r
LoopBody(f, r) ==
    /\ outputs' = Append(outputs, OutputOf(r))
    /\ all_stats' = IF r.ret = "stats" /\ LoopException(r) = "none"
                    THEN Append(all_stats, Labelled(r.stats, f.name))
                    ELSE all_stats
    /\ pc' = IF LoopException(r) = "none" THEN pc ELSE "crashed"
    /\ message' = IF LoopException(r) = "none" THEN message
                  ELSE Reject(LoopException(r))

ProcessFile ==
    /\ pc = "loop"
    /\ file_idx <= Len(files)
    /\ LoopBody(files[file_idx], PipeProcessed[files[file_idx].ds, date_filter])
    /\ file_idx' = file_idx + 1
    /\ calls' = Append(calls, "process_and_add_columns")
    /\ UNCHANGED <<entry, files, reported, date_filter>>

CliNormalize ==
    /\ pc = "loop" /\ entry = "cli"
    /\ file_idx > Len(files)
    /\ all_stats # <<>>
    /\ all_stats' = normalize_month_columns(all_stats)
    /\ pc' = "excel"
    /\ calls' = Append(calls, "normalize_month_columns")
    /\ UNCHANGED <<entry, files, file_idx, outputs, message, reported, date_filter>>

CliNothing ==
    /\ pc = "loop" /\ entry = "cli"
    /\ file_idx > Len(files)
    /\ all_stats = <<>>
    /\ pc' = "done"
    /\ UNCHANGED <<entry, files, file_idx, all_stats, outputs, message, reported,
                   calls, date_filter>>

\* sum(s['total_users'] for s in all_stats) = 0, the divisor of the overall summary
RECURSIVE TotalUsers(_)
TotalUsers(stats_list) ==
    IF stats_list = <<>> THEN 0
    ELSE Head(stats_list).d["total_users"] + TotalUsers(Tail(stats_list))

CliExcel ==
    /\ pc = "excel" /\ entry = "cli"
    /\ reported' = Append(reported, all_stats)
    /\ calls' = Append(calls, "create_summary_excel")
    /\ pc' = IF TotalUsers(all_stats) = 0 THEN "crashed" ELSE "done"
    /\ message' = IF TotalUsers(all_stats) = 0 THEN Reject("ZeroDivisionError") ELSE message
    /\ UNCHANGED <<entry, files, file_idx, all_stats, outputs, date_filter>>

AppExcel ==
    /\ pc = "loop" /\ entry = "app"
    /\ file_idx > Len(files)
    /\ reported' = Append(reported, all_stats)
    /\ calls' = Append(calls, "create_summary_excel")
    /\ pc' = "zip"
    /\ UNCHANGED <<entry, files, file_idx, all_stats, outputs, message, date_filter>>

\* zf.write(pf) for every file a dictionary came back for
AppZip ==
    /\ pc = "zip" /\ entry = "app"
    /\ LET missing == \E k \in 1..Len(outputs) : outputs[k].ret = "stats" /\ ~outputs[k].wrote IN
           /\ pc' = IF missing THEN "crashed" ELSE "tables"
           /\ message' = IF missing THEN Reject("FileNotFoundError") ELSE message
    /\ calls' = Append(calls, "zip")
    /\ UNCHANGED <<entry, files, file_idx, all_stats, outputs, reported, date_filter>>

\* pd.DataFrame(all_stats)[cols] and the month tables
AppTables ==
    /\ pc = "tables" /\ entry = "app"
    /\ IF all_stats = <<>>
       THEN /\ pc' = "crashed"
            /\ message' = Reject("KeyError")
            /\ UNCHANGED <<reported, calls>>
       ELSE /\ pc' = "done"
            /\ reported' = Append(reported, all_stats)
            /\ calls' = Append(calls, "tables")
            /\ UNCHANGED message
    /\ UNCHANGED <<entry, files, file_idx, all_stats, outputs, date_filter>>

Next ==
    \/ CliGate /\ UNCHANGED <<tierVars, valVars>>
    \/ AppGate /\ UNCHANGED <<tierVars, valVars>>
    \/ ProcessFile /\ UNCHANGED <<tierVars, valVars>>
    \/ CliNormalize /\ UNCHANGED <<tierVars, valVars>>
    \/ CliNothing /\ UNCHANGED <<tierVars, valVars>>
    \/ CliExcel /\ UNCHANGED <<tierVars, valVars>>
    \/ AppExcel /\ UNCHANGED <<tierVars, valVars>>
    \/ AppZip /\ UNCHANGED <<tierVars, valVars>>
    \/ AppTables /\ UNCHANGED <<tierVars, valVars>>

Spec == PipeInit /\ [][Next]_vars

----------------------------------------------------------------------------
(* What the program computes for the sample inputs, tabulated once for the *)
(* properties below.                                                       *)

\* the row loop's values for each sample row under the well-formed header
RowFacts == Table([r \in RowNames |-> RowEntry(RowOf(r), ChapterSeq)])

\* the verdict of validate_all for each kind of dataset header
HeaderVerdict ==
    Table([h \in {"valid", "nopillar", "short", "unreadable", "nofile"} |->
              validate_all(FileOf(<<>>, [hdr |-> h, rows |-> <<>>])).ok])

DatasetValid(ds) == HeaderVerdict[ds.hdr]

AllNames == {N_English, N_Hindi, N_Marathi, N_Bengali, N_Odia, N_Tamil, N_english,
             N_English2, N_NoLabel, N_Notes}

\* the label extract_language_from_filename finds in each sample name
LabelOfName == Table([n \in AllNames |-> extract_language_from_filename(n)])

\* the rows of a dataset that the filter lets through, by position
ProcessedPositions(ds, flt) ==
    {k \in 1..Len(ds.rows) : PassesFilter(flt, RowFacts[ds.rows[k]].date_info)}

\* the file a summary of all_stats was computed from
FileOfSummary(s) == files[CHOOSE k \in 1..Len(files) : files[k].name = s.d["filename"]]

TierKey(t) ==
    CASE t = 25 -> "25_percent" [] t = 50 -> "50_percent"
      [] t = 75 -> "75_percent" [] t = 100 -> "100_percent"

Tiers == {25, 50, 75, 100}

----------------------------------------------------------------------------
(* C1 (as stated): every processed row adds to at most one of the four     *)
(* tier counters of its Dataset Summary, so the counters of a summary sum  *)
(* to no more than the number of rows processed for it.                    *)
C1_ExclusiveTierCounters ==
    \A i \in 1..Len(all_stats) :
        LET s == all_stats[i] IN
        s.d["25_percent"] + s.d["50_percent"] + s.d["75_percent"] + s.d["100_percent"]
            <= Cardinality(ProcessedPositions(FileOfSummary(s).ds, date_filter))

(* C1 (amended): the tier counters are cumulative.  The counter of         *)
(* threshold T is the number of processed rows whose progress tier is at   *)
(* least T, so a row of tier 100 adds to all four counters.                *)
C1_CumulativeTierCounters ==
    \A i \in 1..Len(all_stats) :
        LET s == all_stats[i]
            ds == FileOfSummary(s).ds
        IN  \A t \in Tiers :
                s.d[TierKey(t)] =
                    Cardinality({k \in ProcessedPositions(ds, date_filter) :
                                    RowFacts[ds.rows[k]].progress_pct >= t})

\* a summary of a single processed row of tier 100, counted in all four counters
C1_Witness ==
    \E i \in 1..Len(all_stats) :
        LET s == all_stats[i] IN
        /\ FileOfSummary(s).ds.rows = <<"feb_all">>
        /\ RowFacts["feb_all"].progress_pct = 100
        /\ \A t \in Tiers : s.d[TierKey(t)] = 1

----------------------------------------------------------------------------
(* C2: for videos_completed in 0..35 and quizzes_completed in 0..2,        *)
(* calculate_progress_percentage returns 100 iff videos >= 35 and          *)
(* quizzes >= 2, otherwise 75 iff videos >= 26, otherwise 50 iff           *)
(* videos >= 18, otherwise 25 iff videos >= 9, otherwise 0; so the result  *)
(* is one of 0, 25, 50, 75, 100 and 100 implies 35 videos and 2 quizzes.   *)
C2_TierFunction ==
    tpc = "done" =>
        /\ tpct = (IF tv >= 35 /\ tq >= 2 THEN 100
                   ELSE IF tv >= 26 THEN 75
                   ELSE IF tv >= 18 THEN 50
                   ELSE IF tv >= 9 THEN 25
                   ELSE 0)
        /\ tpct \in {0, 25, 50, 75, 100}
        /\ (tpct = 100 => tv >= 35 /\ tq >= 2)

\* all 35 videos but only one quiz: tier 75
C2_Witness == tpc = "done" /\ tv = 35 /\ tq = 1 /\ tpct = 75

----------------------------------------------------------------------------
(* C3: in both entry points, whenever summaries are handed to reporting    *)
(* (create_summary_excel or the on-screen tables), normalize_month_columns *)
(* has run before, after the last dataset was aggregated, and the          *)
(* summaries handed over are the normalized ones (no retained per-learner  *)
(* list left in them).                                                     *)
C3_NormalizeBeforeReporting ==
    /\ \A k \in 1..Len(calls) :
          calls[k] \in {"create_summary_excel", "tables"} =>
              \E j \in 1..(k - 1) :
                  /\ calls[j] = "normalize_month_columns"
                  /\ \A i \in (j + 1)..k : calls[i] # "process_and_add_columns"
    /\ \A r \in 1..Len(reported) : \A i \in 1..Len(reported[r]) :
          "_user_data_summary" \notin DOMAIN reported[r][i].d

----------------------------------------------------------------------------
(* C4: after normalize_month_columns every summary of all_stats has the    *)
(* same cumulative bucket keys and the same monthly bucket keys, namely    *)
(* those of the union of the (year, month) buckets discovered by any       *)
(* summary of the batch; also a summary whose dataset has no dated row.    *)

\* the (year, month) buckets the processed rows of a dataset fall in
DiscoveredBuckets(ds, flt) ==
    {<<RowFacts[ds.rows[k]].date_info.year, RowFacts[ds.rows[k]].date_info.month>> :
        k \in {j \in ProcessedPositions(ds, flt) : IsDate(RowFacts[ds.rows[j]].date_info)}}

BatchBuckets ==
    UNION {DiscoveredBuckets(FileOfSummary(all_stats[i]).ds, date_filter) :
              i \in 1..Len(all_stats)}

CumulativeKeys(s) == {key \in DOMAIN s.cols : MatchAt(key, P_cumulative, 1)}
MonthlyKeys(s) == {key \in DOMAIN s.cols : MatchAt(key, P_monthly, 1)}

C4_IdenticalBucketKeys ==
    pc = "normalized" =>
        \A i \in 1..Len(all_stats) :
            /\ CumulativeKeys(all_stats[i]) = {cum_key(P[1], P[2]) : P \in BatchBuckets}
            /\ MonthlyKeys(all_stats[i]) = {mon_key(P[1], P[2]) : P \in BatchBuckets}
            /\ DOMAIN all_stats[i].cols
                   = CumulativeKeys(all_stats[i]) \cup MonthlyKeys(all_stats[i])

\* normalized: a dataset with two buckets next to one without a dated row
C4_Witness ==
    /\ pc = "normalized"
    /\ Len(all_stats) = 2
    /\ Cardinality(BatchBuckets) = 2
    /\ \E i \in 1..Len(all_stats) :
          /\ FileOfSummary(all_stats[i]).ds.rows # <<>>
          /\ DiscoveredBuckets(FileOfSummary(all_stats[i]).ds, date_filter) = {}
          /\ Cardinality(CumulativeKeys(all_stats[i])) = 2

----------------------------------------------------------------------------
(* C5: dataset A has a processed learner with at least one video whose     *)
(* start date lies in month M, dataset B has no processed learner starting *)
(* in M.                                                                   *)

LearnersIn(ds, flt, P) ==
    {k \in ProcessedPositions(ds, flt) :
        /\ IsDate(RowFacts[ds.rows[k]].date_info)
        /\ RowFacts[ds.rows[k]].date_info.year = P[1]
        /\ RowFacts[ds.rows[k]].date_info.month = P[2]}

C5_Scenario(a, b, P) ==
    /\ a # b
    /\ \E k \in LearnersIn(FileOfSummary(all_stats[a]).ds, date_filter, P) :
          RowFacts[FileOfSummary(all_stats[a]).ds.rows[k]].videos_completed >= 1
    /\ LearnersIn(FileOfSummary(all_stats[b]).ds, date_filter, P) = {}

\* B's processed learners with at least one video who started by the end of M
StartedBy(ds, flt, P) ==
    {k \in ProcessedPositions(ds, flt) :
        /\ RowFacts[ds.rows[k]].videos_completed >= 1
        /\ IsDate(RowFacts[ds.rows[k]].date_info)
        /\ DateLE(RowFacts[ds.rows[k]].date_info, MonthEnd(P[1], P[2]))}

----------------------------------------------------------------------------
(* C6: validate_all accepts a header row iff column 17 exists and contains *)
(* 'pillar' in any case, exactly 35 columns of the index range 17..69      *)
(* (clipped to the header length) end in ' - ' followed by exactly 24      *)
(* alphanumeric characters and do not contain 'quiz', and columns 41 and   *)
(* 72 exist and contain 'quiz'; after acceptance video_chapter_indices     *)
(* holds exactly those 35 indices.                                         *)

\* the text ends in ' - ' followed by exactly 24 alphanumeric characters
EndsInId(header) ==
    /\ Len(header) >= 27
    /\ SubSeq(header, Len(header) - 26, Len(header) - 24) = <<" ", "-", " ">>
    /\ \A k \in (Len(header) - 23)..Len(header) : IsAlnum(header[k])

ChapterIndices(hdr) ==
    {i \in 17..69 : i < Len(hdr) /\ EndsInId(At(hdr, i))
                    /\ ~Contains(Lower(At(hdr, i)), T_quiz)}

C6_AcceptsIff ==
    vpc = "done" =>
        /\ accepted <=>
              /\ 17 < Len(headers) /\ Contains(Lower(At(headers, 17)), T_pillar)
              /\ Cardinality(ChapterIndices(headers)) = 35
              /\ 41 < Len(headers) /\ Contains(Lower(At(headers, 41)), T_quiz)
              /\ 72 < Len(headers) /\ Contains(Lower(At(headers, 72)), T_quiz)
        /\ accepted =>
              {video_chapter_indices[k] : k \in 1..Len(video_chapter_indices)}
                  = ChapterIndices(headers)

----------------------------------------------------------------------------
(* C7: for a dataset that fails validation (a schema rule violated or the  *)
(* file unreadable) process_and_add_columns returns nothing, no summary of *)
(* it is kept and no output file is written, and the pipeline does not     *)
(* stop on it: an exception in the loop is never raised on such a dataset. *)
C7_FailedValidationIsDropped ==
    /\ \A k \in 1..Len(outputs) :
          ~DatasetValid(files[k].ds) =>
              /\ outputs[k] = [ret |-> "none", wrote |-> FALSE, content |-> <<>>]
              /\ \A i \in 1..Len(all_stats) : all_stats[i].d["filename"] # files[k].name
    /\ (pc = "crashed" /\ calls[Len(calls)] = "process_and_add_columns")
          => DatasetValid(files[Len(outputs)].ds)
    /\ pc \in {"loop", "crashed"} => file_idx = Len(outputs) + 1

\* a run to the end in which a dataset was dropped and a later one was aggregated
C7_Witness ==
    /\ pc = "done"
    /\ \E k \in 1..Len(outputs) : \E j \in (k + 1)..Len(outputs) :
          /\ ~DatasetValid(files[k].ds)
          /\ outputs[j].ret = "stats"

----------------------------------------------------------------------------
(* C8: a dataset is validated or aggregated only after the batch gate has  *)
(* passed, that is, the batch has exactly five files whose labels are      *)
(* English, Hindi, Marathi, Bengali and Odia, each once; on a violation    *)
(* no dataset is processed and no output is produced.                      *)

BatchOK(fs) ==
    /\ Len(fs) = 5
    /\ \A l \in {L_English, L_Hindi, L_Marathi, L_Bengali, L_Odia} :
          Cardinality({k \in 1..Len(fs) :
                          LabelOfName[fs[k].name].found
                          /\ LabelOfName[fs[k].name].label = l}) = 1

NothingProcessed ==
    /\ outputs = <<>> /\ all_stats = <<>> /\ reported = <<>>
    /\ \A k \in 1..Len(calls) : calls[k] = "gate"

C8_GateBeforeProcessing ==
    pc # "start" =>
        /\ ~NothingProcessed => BatchOK(files)
        /\ ~BatchOK(files) => pc = "rejected" /\ NothingProcessed

\* five files, one of them with a label that is not required: rejected
C8_Witness ==
    /\ pc = "rejected"
    /\ Len(files) = 5
    /\ message.extra = {L_Tamil}
    /\ NothingProcessed

----------------------------------------------------------------------------
(* C9: a batch with only 4 of the 5 required labels.                       *)

BatchLabels(fs) ==
    {LabelOfName[fs[k].name].label :
        k \in {j \in 1..Len(fs) : LabelOfName[fs[j].name].found}}

FourOfFive(fs) == Cardinality(BatchLabels(fs) \cap REQUIRED_LANGUAGES) = 4

HasRepeatedLabel(fs) ==
    \E j, k \in 1..Len(fs) :
        /\ j # k
        /\ LabelOfName[fs[j].name].found /\ LabelOfName[fs[k].name].found
        /\ LabelOfName[fs[j].name].label = LabelOfName[fs[k].name].label

(* C9 (as stated): the batch is rejected with a message that names the     *)
(* missing category, and no dataset is processed.                          *)
C9_MissingCategoryNamed ==
    (pc # "start" /\ FourOfFive(files)) =>
        /\ pc = "rejected"
        /\ NothingProcessed
        /\ message.missing = REQUIRED_LANGUAGES \ BatchLabels(files)

(* C9 (amended): the batch is rejected and no dataset is processed; the    *)
(* message names the missing category when the batch has five files and    *)
(* no label twice; a batch of another size gets the file-count message,    *)
(* five files with a repeated label the duplicate message.                 *)
C9_FourOfFiveRejected ==
    (pc # "start" /\ FourOfFive(files)) =>
        /\ pc = "rejected"
        /\ NothingProcessed
        /\ IF Len(files) # 5
           THEN message.kind = "count" /\ message.count = Len(files)
                /\ message.missing = {}
           ELSE IF HasRepeatedLabel(files)
           THEN message.kind = "duplicate" /\ message.missing = {}
           ELSE /\ message.kind = "invalid"
                /\ message.missing = REQUIRED_LANGUAGES \ BatchLabels(files)
                /\ Cardinality(message.missing) = 1

\* five files, one without a label: rejected, the message names the one missing
C9_Witness ==
    /\ pc = "rejected"
    /\ Len(files) = 5
    /\ FourOfFive(files)
    /\ message.kind = "invalid"
    /\ message.missing = {L_Bengali}
    /\ message.extra = {}

----------------------------------------------------------------------------
(* C10: for every validated dataset process_and_add_columns writes an      *)
(* output whose header is the original header followed by the three new    *)
(* columns and which holds, for each source row in source order, the       *)
(* original cells followed by the row's videos_completed,                  *)
(* quizzes_completed and progress tier.                                    *)
C10_EverySourceRowWritten ==
    \A k \in 1..Len(outputs) :
        DatasetValid(files[k].ds) =>
            /\ outputs[k].wrote
            /\ Len(outputs[k].content) = Len(files[k].ds.rows) + 1
            /\ outputs[k].content[1] = new_headers(HeaderOf(files[k].ds.hdr))
            /\ \A j \in 1..Len(files[k].ds.rows) :
                  outputs[k].content[j + 1] = new_row(RowFacts[files[k].ds.rows[j]])

----------------------------------------------------------------------------
(* C11: with a date-range filter (both start and end given) the summary's  *)
(* total_users is the full row count of the dataset, and a row without a   *)
(* start date or with one outside [start, end] (bounds inclusive) adds to  *)
(* no cumulative or monthly bucket and makes no bucket appear: the buckets *)
(* and their counters are those of the rows dated within the range alone.  *)

\* the rows of ds whose start date lies in [start, end], by position
InRange(ds, flt) ==
    {k \in 1..Len(ds.rows) :
        LET d == RowFacts[ds.rows[k]].date_info IN
        /\ IsDate(d)
        /\ DateLE(flt.start, d) /\ DateLE(d, flt.end)}

FilterGiven == IsDate(date_filter.start) /\ IsDate(date_filter.end)

C11_FilterKeepsTotalUsers ==
    (entry = "app" /\ FilterGiven) =>
        \A i \in 1..Len(all_stats) :
            LET s == all_stats[i]
                ds == FileOfSummary(s).ds
                inr == InRange(ds, date_filter)
                pairs == {<<RowFacts[ds.rows[k]].date_info.year,
                            RowFacts[ds.rows[k]].date_info.month>> : k \in inr}
            IN  /\ s.d["total_users"] = Len(ds.rows)
                /\ DOMAIN s.cols = {cum_key(P[1], P[2]) : P \in pairs}
                                     \cup {mon_key(P[1], P[2]) : P \in pairs}
                /\ \A P \in pairs :
                      /\ s.cols[cum_key(P[1], P[2])] =
                            Cardinality({k \in inr :
                                /\ RowFacts[ds.rows[k]].videos_completed >= 1
                                /\ DateLE(RowFacts[ds.rows[k]].date_info,
                                          MonthEnd(P[1], P[2]))})
                      /\ s.cols[mon_key(P[1], P[2])] =
                            Cardinality({k \in inr :
                                /\ RowFacts[ds.rows[k]].videos_completed >= 1
                                /\ RowFacts[ds.rows[k]].date_info.year = P[1]
                                /\ RowFacts[ds.rows[k]].date_info.month = P[2]})

\* the range runs from one row's date to another's: both rows are in, while a
\* dataset whose only row has no date is counted in total_users with no bucket
C11_Witness ==
    /\ entry = "app" /\ FilterGiven
    /\ date_filter.start = RowFacts["dec_26"].date_info
    /\ date_filter.end = RowFacts["jan_1"].date_info
    /\ \E i, j \in 1..Len(all_stats) :
          /\ FileOfSummary(all_stats[i]).ds.rows = <<"jan_1", "dec_26">>
          /\ Cardinality(DOMAIN all_stats[i].cols) = 4
          /\ FileOfSummary(all_stats[j]).ds.rows = <<"nodate_9">>
          /\ all_stats[j].d["total_users"] = 1
          /\ DOMAIN all_stats[j].cols = {}

----------------------------------------------------------------------------
(* C12: within one Dataset Summary the cumulative counts never decrease    *)
(* over the (year, month) buckets taken in chronological order, as         *)
(* process_and_add_columns leaves them and after normalize_month_columns   *)
(* has added the buckets of other datasets.                                *)

\* the (year, month) pairs of the years the sample dates fall in
SamplePairs == {<<y, m>> : y \in {d.year : d \in SampleDateSet}, m \in 1..12}

\* the pairs a summary has a cumulative counter for
CumulativePairs(s) == {P \in SamplePairs : cum_key(P[1], P[2]) \in DOMAIN s.cols}

Before(P, Q) == P[1] < Q[1] \/ (P[1] = Q[1] /\ P[2] < Q[2])

C12_CumulativeMonotone ==
    \A i \in 1..Len(all_stats) :
        LET s == all_stats[i] IN
        /\ CumulativeKeys(s) = {cum_key(P[1], P[2]) : P \in CumulativePairs(s)}
        /\ \A P, Q \in CumulativePairs(s) :
              Before(P, Q) => s.cols[cum_key(P[1], P[2])] <= s.cols[cum_key(Q[1], Q[2])]

\* normalized: counts 1, 2, 2 over three buckets, the last one taken over from
\* the other dataset
C12_Witness ==
    /\ pc = "normalized"
    /\ \E i \in 1..Len(all_stats) :
          LET s == all_stats[i] IN
          /\ Cardinality(CumulativePairs(s)) = 3
          /\ \E P, Q, R \in CumulativePairs(s) :
                /\ Before(P, Q) /\ Before(Q, R)
                /\ s.cols[cum_key(P[1], P[2])] = 1
                /\ s.cols[cum_key(Q[1], Q[2])] = 2
                /\ s.cols[cum_key(R[1], R[2])] = 2
                /\ R \notin DiscoveredBuckets(FileOfSummary(s).ds, date_filter)

----------------------------------------------------------------------------
(* C13: the monthly counts of a Dataset Summary, summed over its buckets.  *)

RECURSIVE SumOver(_, _)
SumOver(cols, keys) ==
    IF keys = {} THEN 0
    ELSE LET key == CHOOSE x \in keys : TRUE IN
         cols[key] + SumOver(cols, keys \ {key})

MonthlySum(s) == SumOver(s.cols, MonthlyKeys(s))

\* the rows at the given positions with at least one completed chapter and a
\* known start date
DatedWithVideo(ds, positions) ==
    {k \in positions : /\ RowFacts[ds.rows[k]].videos_completed >= 1
                       /\ IsDate(RowFacts[ds.rows[k]].date_info)}

(* C13 (as stated): the sum equals the number of learners of the dataset   *)
(* with at least one completed chapter and a known start date.             *)
C13_MonthlySumAllLearners ==
    \A i \in 1..Len(all_stats) :
        LET ds == FileOfSummary(all_stats[i]).ds IN
        MonthlySum(all_stats[i]) = Cardinality(DatedWithVideo(ds, 1..Len(ds.rows)))

(* C13 (amended): the sum equals the number of learners of the dataset     *)
(* that pass the date filter (all of them when no filter is given) and     *)
(* have at least one completed chapter and a known start date; before and  *)
(* after normalize_month_columns.                                          *)
C13_MonthlySumProcessedLearners ==
    \A i \in 1..Len(all_stats) :
        LET ds == FileOfSummary(all_stats[i]).ds IN
        MonthlySum(all_stats[i])
            = Cardinality(DatedWithVideo(ds, ProcessedPositions(ds, date_filter)))

\* normalized, no filter: monthly counts 1, 1 and a filled-in 0 sum to 2 learners
C13_Witness ==
    /\ pc = "normalized"
    /\ ~FilterGiven
    /\ \E i \in 1..Len(all_stats) :
          /\ Cardinality(MonthlyKeys(all_stats[i])) = 3
          /\ MonthlySum(all_stats[i]) = 2
          /\ Cardinality(DiscoveredBuckets(FileOfSummary(all_stats[i]).ds, date_filter)) = 2

----------------------------------------------------------------------------
(* C14: for every row of a validated dataset, whatever its length and the  *)
(* contents of its cells, videos_completed is in 0..35 and                 *)
(* quizzes_completed is in 0..2.                                           *)
C14_CountsBounded ==
    tpc = "done" /\ accepted =>
        /\ tv \in 0..35
        /\ tq \in 0..2

\* a row longer than the header with 'Completed' in every cell: 35 and 2
C14_Witness ==
    /\ tpc = "done" /\ accepted
    /\ Len(row_in) > Len(headers)
    /\ \A k \in 1..Len(row_in) : row_in[k] = V_Completed
    /\ tv = 35 /\ tq = 2

----------------------------------------------------------------------------
(* C15..C17: parse_start_date on one text.  The reading below is written   *)
(* from the documented rule, apart from SlashBranch.                       *)

SlashParts(text) == Split(Strip(text), "/")

\* exactly three '/'-separated parts, each of them an integer for int()
ThreeIntegerParts(text) ==
    /\ Len(SlashParts(text)) = 3
    /\ \A k \in 1..3 : IntParse(SlashParts(text)[k]).ok /\ IntParse(SlashParts(text)[k]).small

\* YYYY/MM/DD when the first part has 4 characters, else DD/MM/YY with the
\* year expanded
DocumentedReading(text) ==
    LET p == SlashParts(text)
        ymd == Len(p[1]) = 4
        y == IntParse(IF ymd THEN p[1] ELSE p[3]).val
    IN  [year  |-> IF ymd THEN y ELSE IF y < 50 THEN y + 2000 ELSE y + 1900,
         month |-> IntParse(p[2]).val,
         day   |-> IntParse(IF ymd THEN p[3] ELSE p[1]).val]

T_dash == <<"-">>
T_n_a == <<"n","/","a">>
T_na == <<"n","a">>

\* the texts for which the documented result is "none"
DocumentedNone(text) ==
    \/ Strip(text) = <<>>
    \/ Lower(Strip(text)) \in {T_not_started, T_dash, T_n_a, T_na}
    \/ /\ Len(SlashParts(text)) = 3
       /\ \E k \in 1..3 : ~IntParse(SlashParts(text)[k]).ok
    \/ /\ ThreeIntegerParts(text)
       /\ \/ DocumentedReading(text).month \notin 1..12
          \/ DocumentedReading(text).day \notin 1..31

(* C15: parse_start_date is total: for every text it returns a calendar    *)
(* date or none and never raises; it returns none for empty or             *)
(* whitespace-only text, 'not started' in any case, '-' and 'n/a', a       *)
(* three-part slash text with month outside 1..12 or day outside 1..31,    *)
(* and one with a part that is not an integer.                             *)
C15_ParseTotal ==
    tpc = "done" =>
        /\ date_out.kind \in {"date", "none"}
        /\ DocumentedNone(date_in) => date_out = NoDate

----------------------------------------------------------------------------
T_06_11_25 == <<"0","6","/","1","1","/","2","5">>
T_2025_11_06 == <<"2","0","2","5","/","1","1","/","0","6">>
T_01_02_03 == <<"0","1","/","0","2","/","0","3">>

----------------------------------------------------------------------------
(* C17: round trip.  For a calendar date D, parse_start_date of D written  *)
(* as DD/MM/YY is a date with the day and the month of D and the year      *)
(* given by the two-digit expansion; it is D itself for every D with year  *)
(* in 1950..2049.                                                          *)
C17_RoundTrip ==
    tpc = "done" /\ IsDate(date_src) =>
        /\ IsDate(date_out)
        /\ date_out.day = date_src.day
        /\ date_out.month = date_src.month
        /\ date_out.year = IF date_src.year % 100 < 50
                           THEN 2000 + (date_src.year % 100)
                           ELSE 1900 + (date_src.year % 100)
        /\ date_src.year \in 1950..2049 => date_out = date_src

\* 29 February 2024 came back as itself, 29 February 2400 as 29 February 2000
C17_Witness ==
    /\ tpc = "done"
    /\ \/ date_src = Date(2024, 2, 29) /\ date_out = date_src
       \/ date_src = Date(2400, 2, 29) /\ date_out = Date(2000, 2, 29)

----------------------------------------------------------------------------
(* C18: after normalize_month_columns has returned, for every batch, also  *)
(* one in which no dataset discovered any bucket, no summary of all_stats  *)
(* contains the retained per-learner list '_user_data_summary'.            *)
C18_NoRetainedListLeft ==
    pc = "normalized" =>
        \A i \in 1..Len(all_stats) : "_user_data_summary" \notin DOMAIN all_stats[i].d

\* normalized: one summary comes from a dataset with a retained learner, the
\* other from a dataset without any bucket
C18_Witness ==
    /\ pc = "normalized"
    /\ Len(all_stats) = 2
    /\ \E i, j \in 1..2 :
          /\ DatedWithVideo(FileOfSummary(all_stats[i]).ds,
                            ProcessedPositions(FileOfSummary(all_stats[i]).ds, date_filter)) # {}
          /\ DiscoveredBuckets(FileOfSummary(all_stats[j]).ds, date_filter) = {}

\* normalized: a batch with summaries and no bucket at all
C18_WitnessNoBucket ==
    /\ pc = "normalized"
    /\ all_stats # <<>>
    /\ BatchBuckets = {}

----------------------------------------------------------------------------
\* the processed learners of ds with at least one video whose start date has
\* the year and month of P
VideoLearnersIn(ds, flt, P) ==
    {k \in LearnersIn(ds, flt, P) : RowFacts[ds.rows[k]].videos_completed >= 1}

(* C19: process_and_add_columns discovers exactly the (year, month) pairs  *)
(* of the start dates of the rows that pass the filter and creates the     *)
(* cumulative and the monthly counter of each; the cumulative counter of P *)
(* counts the processed rows with at least one video and a start date on   *)
(* or before the month end of P, the monthly counter those whose start     *)
(* date has the year and month of P; rows with no video or no date count   *)
(* nowhere.                                                                *)
C19_DiscoveredBucketsCounted ==
    pc = "agg" =>
        \A i \in 1..Len(all_stats) :
            LET ds == FileOfSummary(all_stats[i]).ds
                cols == all_stats[i].cols
            IN  /\ DOMAIN cols =
                      {cum_key(P[1], P[2]) : P \in DiscoveredBuckets(ds, date_filter)}
                      \cup {mon_key(P[1], P[2]) : P \in DiscoveredBuckets(ds, date_filter)}
                /\ \A P \in DiscoveredBuckets(ds, date_filter) :
                      /\ cols[cum_key(P[1], P[2])]
                             = Cardinality(StartedBy(ds, date_filter, P))
                      /\ cols[mon_key(P[1], P[2])]
                             = Cardinality(VideoLearnersIn(ds, date_filter, P))

\* processed, not yet normalized: January was discovered from a learner
\* without a video (both counters 0), February holds one learner
C19_Witness ==
    /\ pc = "agg"
    /\ \E i \in 1..Len(all_stats) :
          LET cols == all_stats[i].cols IN
          /\ DiscoveredBuckets(FileOfSummary(all_stats[i]).ds, date_filter)
                 = {<<2025, 1>>, <<2025, 2>>}
          /\ cols[cum_key(2025, 1)] = 0 /\ cols[mon_key(2025, 1)] = 0
          /\ cols[cum_key(2025, 2)] = 1 /\ cols[mon_key(2025, 2)] = 1

----------------------------------------------------------------------------
\* the entries of a retained list with a start date on or before the last
\* day of P, and those with the year and month of P
EntriesUpTo(uds, P) ==
    {k \in 1..Len(uds) : DateLE(uds[k][1], MonthEnd(P[1], P[2]))}

EntriesIn(uds, P) ==
    {k \in 1..Len(uds) : uds[k][1].year = P[1] /\ uds[k][1].month = P[2]}

(* C20: normalize_month_columns leaves, for every summary and every bucket *)
(* (y, m) of the cross-dataset union, a cumulative counter equal to the    *)
(* number of entries of the summary's retained list with a start date on   *)
(* or before the last day of (y, m) and a monthly counter equal to the     *)
(* number of entries with year y and month m, also when the retained list  *)
(* is empty or absent.                                                     *)
C20_CountersFromRetainedList ==
    [][pc = "agg" /\ pc' = "normalized" =>
          \A i \in 1..Len(all_stats) : \A P \in AllYearMonths(all_stats) :
              /\ all_stats'[i].cols[cum_key(P[1], P[2])]
                     = Cardinality(EntriesUpTo(RetainedOf(all_stats[i]), P))
              /\ all_stats'[i].cols[mon_key(P[1], P[2])]
                     = Cardinality(EntriesIn(RetainedOf(all_stats[i]), P))]_vars

\* normalized: a summary whose dataset had no retained learner carries two
\* buckets of 0 next to a summary recounted to 1 and 2
C20_Witness ==
    /\ pc = "normalized"
    /\ Len(all_stats) = 2
    /\ \E i, j \in 1..2 :
          /\ DatedWithVideo(FileOfSummary(all_stats[i]).ds,
                            ProcessedPositions(FileOfSummary(all_stats[i]).ds, date_filter)) = {}
          /\ Cardinality(DOMAIN all_stats[i].cols) = 4
          /\ \A key \in DOMAIN all_stats[i].cols : all_stats[i].cols[key] = 0
          /\ \E P, Q \in BatchBuckets :
                /\ all_stats[j].cols[cum_key(P[1], P[2])] = 1
                /\ all_stats[j].cols[cum_key(Q[1], Q[2])] = 2

----------------------------------------------------------------------------
\* the rows of ds whose start date is none, by position
DatelessPositions(ds) ==
    {k \in 1..Len(ds.rows) : ~IsDate(RowFacts[ds.rows[k]].date_info)}

\* the rows that count by their content if dateless rows are left out of the
\* date-dependent counts only
ContentPositions(ds, flt) == ProcessedPositions(ds, flt) \cup DatelessPositions(ds)

(* C21: a row whose start date is none is left out of the started count    *)
(* and of the month buckets only; it is counted in total_users, in         *)
(* started_with_completion, in only_1_video and in the tier counters by    *)
(* its content, with or without a date filter.                             *)
C21_DatelessRowsCountedByContent ==
    \A i \in 1..Len(all_stats) :
        LET ds == FileOfSummary(all_stats[i]).ds
            d == all_stats[i].d
            C == ContentPositions(ds, date_filter)
        IN  /\ d.total_users = Len(ds.rows)
            /\ d.started_with_completion
                   = Cardinality({k \in C : RowFacts[ds.rows[k]].has_started})
            /\ d.only_1_video
                   = Cardinality({k \in C : RowFacts[ds.rows[k]].videos_completed = 1})
            /\ d["25_percent"]
                   = Cardinality({k \in C : RowFacts[ds.rows[k]].progress_pct >= 25})
            /\ d["50_percent"]
                   = Cardinality({k \in C : RowFacts[ds.rows[k]].progress_pct >= 50})
            /\ d["75_percent"]
                   = Cardinality({k \in C : RowFacts[ds.rows[k]].progress_pct >= 75})
            /\ d["100_percent"]
                   = Cardinality({k \in C : RowFacts[ds.rows[k]].progress_pct = 100})
            /\ d.started
                   = Cardinality({k \in ProcessedPositions(ds, date_filter) :
                                     IsDate(RowFacts[ds.rows[k]].date_info)})

----------------------------------------------------------------------------
\* three parts around sep, a four-digit year at position yp and one or two
\* digits in the others
LayoutParts(text, sep, yp) ==
    /\ Len(Split(text, sep)) = 3
    /\ \A k \in 1..3 :
          /\ AllDigits(Split(text, sep)[k])
          /\ IF k = yp THEN Len(Split(text, sep)[k]) = 4
             ELSE Len(Split(text, sep)[k]) \in 1..2

\* the date a text denotes in a layout with the year first or last
LayoutDate(text, sep, yp) ==
    LET p == Split(text, sep) IN
    [year |-> DigitsValue(p[yp]), month |-> DigitsValue(p[2]),
     day |-> DigitsValue(p[4 - yp])]

\* the layout's date when the text has the layout and the date exists
DenotedIn(text, sep, yp) ==
    IF /\ LayoutParts(text, sep, yp)
       /\ ValidDate(LayoutDate(text, sep, yp).year, LayoutDate(text, sep, yp).month,
                    LayoutDate(text, sep, yp).day)
    THEN Date(LayoutDate(text, sep, yp).year, LayoutDate(text, sep, yp).month,
              LayoutDate(text, sep, yp).day)
    ELSE NoDate

\* the date a text denotes in DD/MM/YYYY, YYYY-MM-DD or DD-MM-YYYY
DenotedDate(text) ==
    IF IsDate(DenotedIn(text, "/", 3)) THEN DenotedIn(text, "/", 3)
    ELSE IF IsDate(DenotedIn(text, "-", 1)) THEN DenotedIn(text, "-", 1)
    ELSE DenotedIn(text, "-", 3)

(* C22: a text in one of the fallback layouts DD/MM/YYYY, YYYY-MM-DD or    *)
(* DD-MM-YYYY is parsed to exactly the calendar date the layout denotes;   *)
(* '06/11/2025' gives 2025-11-06.                                          *)
C22_FallbackLayouts ==
    tpc = "done" /\ IsDate(DenotedDate(Strip(date_in))) =>
        date_out = DenotedDate(Strip(date_in))

----------------------------------------------------------------------------
\* the cell contains 'completed' in any letter case
CellHasCompleted(cell) ==
    \E p \in 1..Len(cell) :
        /\ p + Len(T_completed) - 1 <= Len(cell)
        /\ Lower(SubSeq(cell, p, p + Len(T_completed) - 1)) = T_completed

\* the positions of the index list idxs that lie within the row and point at
\* a cell containing 'completed'
CompletedAt(row, idxs) ==
    {k \in 1..Len(idxs) : idxs[k] < Len(row) /\ CellHasCompleted(row[idxs[k] + 1])}

(* C23: count_completions returns as videos_completed the number of        *)
(* chapter indices within the row whose cell contains 'completed' in any   *)
(* case and as quizzes_completed the same count over the two quiz indices; *)
(* a cell reading 'In Progress', a blank cell and an index at or beyond    *)
(* the row's length contribute 0; a row too short to hold the start-date   *)
(* cell has start date none.                                               *)
C23_CountsCompletedCells ==
    tpc = "done" /\ accepted =>
        /\ tv = Cardinality(CompletedAt(row_in, video_chapter_indices))
        /\ tq = Cardinality(CompletedAt(row_in, quiz_indices))
        /\ tv <= Cardinality({k \in 1..Len(video_chapter_indices) :
                    /\ video_chapter_indices[k] < Len(row_in)
                    /\ row_in[video_chapter_indices[k] + 1] \notin {V_InProgress, V_Blank}})
        /\ Len(row_in) <= COL_START_DATE => date_out = NoDate

\* the scenario row has been counted: 'Completed', 'In Progress', blank give 1
C23_Witness ==
    /\ tpc = "done" /\ accepted
    /\ row_in = ScenarioRow
    /\ tv = 1 /\ tq = 0

\* a row ending inside the chapter range, 'NOT COMPLETED' in every cell
C23_WitnessShort ==
    /\ tpc = "done" /\ accepted
    /\ Len(row_in) = COL_AP
    /\ tv > 0 /\ tv < EXPECTED_VIDEO_CHAPTERS /\ tq = 0
    /\ row_in[COL_R + 2] = V_NotCompleted

----------------------------------------------------------------------------
(* C24: for every row of a validated dataset has_started(row) is true      *)
(* exactly when videos_completed + quizzes_completed >= 1 as returned by   *)
(* count_completions(row); the start-date cell plays no part in it.        *)
C24_StartedIffAnyCompletion ==
    tpc = "done" /\ accepted =>
        /\ row_started <=> (tv + tq >= 1)
        /\ Len(row_in) > COL_START_DATE =>
              \A c \in {V_Blank, D_NotStarted, D_Jan, V_Completed} :
                  has_started(SetCell(row_in, COL_START_DATE, c), video_chapter_indices)
                      = row_started

\* a row without a start date whose only completion is the final quiz
C24_Witness ==
    /\ tpc = "done" /\ accepted
    /\ row_in = QuizOnlyRow(D_NotStarted)
    /\ date_out = NoDate
    /\ tv = 0 /\ tq = 1
    /\ row_started

----------------------------------------------------------------------------
(* SpecLang: validate_language_files called on a list of file names of any *)
(* length, as a caller of the module may call it.                          *)

\* the five required files with one of them replaced, one removed, or one
\* more file added in front or behind
LangNameLists ==
    {B_ok, B_notes, B_four, B_six, B_dup, B_extra, B_nolabel, B_lower, B_none}
    \cup {[B_ok EXCEPT ![k] = n] : k \in 1..Len(B_ok), n \in AllNames}
    \cup {SubSeq(B_ok, 1, k - 1) \o SubSeq(B_ok, k + 1, Len(B_ok)) : k \in 1..Len(B_ok)}
    \cup {Append(B_ok, n) : n \in AllNames}
    \cup {<<n>> \o B_lower : n \in AllNames}

InitLang ==
    /\ TierIdle /\ ValIdle
    /\ entry = "lib"
    /\ \E names \in LangNameLists :
          files = WithData(names, [k \in 1..Len(names) |-> DefaultDataset])
    /\ file_idx = 1
    /\ pc = "validate"
    /\ all_stats = <<>>
    /\ outputs = <<>>
    /\ message = NoMessage
    /\ reported = <<>>
    /\ calls = <<>>
    /\ date_filter = NoFilter

\* is_valid, message = validate_language_files(files)
ValidateLanguages ==
    /\ pc = "validate"
    /\ pc' = IF validate_language_files(Names(files)).ok THEN "accepted" ELSE "rejected"
    /\ message' = validate_language_files(Names(files)).msg
    /\ calls' = Append(calls, "validate_language_files")
    /\ UNCHANGED <<entry, files, file_idx, all_stats, outputs, reported, date_filter>>

LangNext == ValidateLanguages /\ UNCHANGED <<tierVars, valVars>>

SpecLang == InitLang /\ [][LangNext]_vars

----------------------------------------------------------------------------
\* the files of fs whose name yields the label l
FilesLabelled(fs, l) ==
    {k \in 1..Len(fs) : LabelOfName[fs[k].name].found /\ LabelOfName[fs[k].name].label = l}

\* the files of fs whose name yields a label
LabelledFiles(fs) == {k \in 1..Len(fs) : LabelOfName[fs[k].name].found}

\* each required label is yielded by exactly one file and no other label occurs
RequiredLabelsOnce(fs) ==
    /\ \A l \in REQUIRED_LANGUAGES : Cardinality(FilesLabelled(fs, l)) = 1
    /\ \A k \in LabelledFiles(fs) : LabelOfName[fs[k].name].label \in REQUIRED_LANGUAGES

(* C25 (as stated): validate_language_files accepts only a list of exactly *)
(* five files that yield the labels English, Hindi, Marathi, Bengali, Odia *)
(* each exactly once; every other list is rejected.                        *)
C25_AcceptsOnlyFiveFiles ==
    pc = "accepted" =>
        /\ Len(files) = REQUIRED_FILE_COUNT
        /\ LabelledFiles(files) = 1..Len(files)
        /\ RequiredLabelsOnce(files)

(* C25 (amended): validate_language_files accepts exactly the lists in     *)
(* which the files whose name yields a label yield the five required       *)
(* labels each exactly once and no other label; files whose name yields no *)
(* label are ignored, so the list may hold more than five files.           *)
C25_AcceptsRequiredLabelsOnce ==
    pc \in {"accepted", "rejected"} =>
        (pc = "accepted" <=> RequiredLabelsOnce(files))

\* six files, one of them without a label, have been accepted
C25_Witness ==
    /\ pc = "accepted"
    /\ Len(files) = REQUIRED_FILE_COUNT + 1
    /\ Cardinality(LabelledFiles(files)) = REQUIRED_FILE_COUNT

----------------------------------------------------------------------------
\* every file yields a label and the labels are, letter case aside, the five
\* required ones, each from exactly one file
RequiredLabelsOnceAnyCase(fs) ==
    /\ LabelledFiles(fs) = 1..Len(fs)
    /\ \A l \in REQUIRED_LANGUAGES :
          Cardinality({k \in 1..Len(fs) : Lower(LabelOfName[fs[k].name].label) = Lower(l)}) = 1
    /\ \A k \in 1..Len(fs) :
          \E l \in REQUIRED_LANGUAGES : Lower(LabelOfName[fs[k].name].label) = Lower(l)

(* C26: validate_language_files compares the labels with the required ones *)
(* without regard to letter case: five files whose labels differ from      *)
(* English, Hindi, Marathi, Bengali, Odia only in case are accepted.       *)
C26_LabelsCompareAnyCase ==
    /\ pc \in {"accepted", "rejected"}
    /\ Len(files) = REQUIRED_FILE_COUNT
    /\ RequiredLabelsOnceAnyCase(files)
    => pc = "accepted"

----------------------------------------------------------------------------
\* the monthly counters of the buckets of s at or before P, summed
MonthlyUpTo(s, P) ==
    SumOver(s.cols, {mon_key(Q[1], Q[2]) : Q \in {R \in CumulativePairs(s) :
                                                     R = P \/ Before(R, P)}})

(* C27: in every Dataset Summary, before and after normalization, the      *)
(* cumulative counter of each bucket P equals the sum of the monthly       *)
(* counters of the summary's buckets chronologically at or before P; the   *)
(* cumulative counter of the latest bucket equals the total of all monthly *)
(* counters.                                                               *)
C27_CumulativeIsRunningSum ==
    \A i \in 1..Len(all_stats) :
        LET s == all_stats[i] IN
        /\ \A P \in CumulativePairs(s) :
              s.cols[cum_key(P[1], P[2])] = MonthlyUpTo(s, P)
        /\ \A P \in CumulativePairs(s) :
              (\A Q \in CumulativePairs(s) : Q = P \/ Before(Q, P))
                  => s.cols[cum_key(P[1], P[2])] = MonthlySum(s)

\* before normalization: two buckets with monthly counts 1, 1 and cumulative
\* counts 1, 2
C27_Witness ==
    \E i \in 1..Len(all_stats) :
        LET s == all_stats[i] IN
        \E P, Q \in CumulativePairs(s) :
            /\ Before(P, Q)
            /\ s.cols[mon_key(P[1], P[2])] = 1 /\ s.cols[mon_key(Q[1], Q[2])] = 1
            /\ s.cols[cum_key(P[1], P[2])] = 1 /\ s.cols[cum_key(Q[1], Q[2])] = 2
            /\ MonthlySum(s) = 2
            /\ pc = "agg"

----------------------------------------------------------------------------
\* the keys of the two counters of the buckets in S
BucketKeys(S) ==
    {cum_key(P[1], P[2]) : P \in S} \cup {mon_key(P[1], P[2]) : P \in S}

(* C28: normalize_month_columns changes nothing a dataset already          *)
(* reported: the cumulative and monthly values of the buckets the dataset  *)
(* itself discovered stay as the aggregator computed them and all          *)
(* non-bucket fields (total_users, started, started_with_completion,       *)
(* only_1_video, the four tier counters, language, filename) stay          *)
(* unchanged; only missing buckets are added and the retained list is      *)
(* removed.                                                                *)
C28_NormalizeKeepsReported ==
    [][pc = "agg" /\ pc' = "normalized" =>
          /\ Len(all_stats') = Len(all_stats)
          /\ \A i \in 1..Len(all_stats) :
                /\ \A key \in DOMAIN all_stats[i].cols :
                      /\ key \in DOMAIN all_stats'[i].cols
                      /\ all_stats'[i].cols[key] = all_stats[i].cols[key]
                /\ DOMAIN all_stats'[i].cols \ DOMAIN all_stats[i].cols
                       \subseteq BucketKeys(AllYearMonths(all_stats))
                /\ DOMAIN all_stats'[i].d \subseteq DOMAIN all_stats[i].d
                /\ DOMAIN all_stats[i].d \ DOMAIN all_stats'[i].d
                       \subseteq {"_user_data_summary"}
                /\ \A f \in DOMAIN all_stats'[i].d :
                      all_stats'[i].d[f] = all_stats[i].d[f]]_vars

\* normalized: a summary of two learners with its own bucket at 2 and 2 and
\* one bucket added
C28_Witness ==
    /\ pc = "normalized"
    /\ \E i \in 1..Len(all_stats) : \E P \in BatchBuckets :
          /\ DiscoveredBuckets(FileOfSummary(all_stats[i]).ds, date_filter) = {P}
          /\ all_stats[i].cols[cum_key(P[1], P[2])] = 2
          /\ all_stats[i].cols[mon_key(P[1], P[2])] = 2
          /\ Cardinality(DOMAIN all_stats[i].cols) = 4
          /\ all_stats[i].d.total_users = 2
          /\ all_stats[i].d.started = 2

----------------------------------------------------------------------------
(* C29: report_code.main completes without an unhandled exception for      *)
(* every batch that passes the gate, also when a schema-valid dataset of   *)
(* the batch has no learner row (total_users = 0) or no parseable start    *)
(* date in any row.                                                        *)
C29_CliNeverCrashes ==
    entry = "cli" => pc # "crashed"

----------------------------------------------------------------------------
(* C30: every Dataset Summary produced by process_and_add_columns has      *)
(* 100_percent <= 75_percent <= 50_percent <= 25_percent <=                *)
(* started_with_completion <= total_users, started <= total_users and      *)
(* only_1_video <= started_with_completion, for every dataset and filter.  *)
C30_CounterOrdering ==
    \A i \in 1..Len(all_stats) :
        LET d == all_stats[i].d IN
        /\ d["100_percent"] <= d["75_percent"]
        /\ d["75_percent"] <= d["50_percent"]
        /\ d["50_percent"] <= d["25_percent"]
        /\ d["25_percent"] <= d.started_with_completion
        /\ d.started_with_completion <= d.total_users
        /\ d.started <= d.total_users
        /\ d.only_1_video <= d.started_with_completion

\* a summary of two learners, one of tier 100 and one of tier 25 without a date
C30_Witness ==
    \E i \in 1..Len(all_stats) :
        LET d == all_stats[i].d IN
        /\ d["100_percent"] = 1 /\ d["75_percent"] = 1 /\ d["50_percent"] = 1
        /\ d["25_percent"] = 2
        /\ d.started_with_completion = 2 /\ d.total_users = 2
        /\ d.started = 1 /\ d.only_1_video = 0

====
